---- MODULE Spec2Model ----
(***************************************************************************)
(* Model of the diff dependency-injection container:                       *)
(*   DependencyRegister / DependencyRegistry  (DependencyRegistry.h)       *)
(*   Component<...>::registerAs               (Component.h)                *)
(*   Factory<T>::build, Injector, Constructor (Factory.h)                  *)
(*   Build::Build, Build::~Build              (Build.h)                    *)
(***************************************************************************)
EXTENDS Integers, Sequences, FiniteSets, TLC

(***************************************************************************)
(* Bounds of the explored inputs.                                          *)
(***************************************************************************)
\* longest topology handed to Build::Build
MaxEntries == 3

\* component / dependency ids used by the topologies and the registry calls
Ids == {"a", "b"}
\* side-ids a side() hook may yield (the empty one is rejected by the code)
SideIds == {"", "s"}
\* objects a component owns and may expose as side dependencies
Objs == {"p"}
\* the single non-empty Config value carried by topology entries
Configs == {"cfg"}

(***************************************************************************)
(* std::string ordering (std::less<std::string>, operator< on type         *)
(* names): the strings of the model listed in byte-wise lexicographic      *)
(* order.                                                                  *)
(***************************************************************************)
StringOrder ==
    <<"", "IA", "IB", "IC", "IS", "IT",
      "a", "a_", "a_s", "b", "b_", "b_s", "k", "m", "s">>

Rank(s) == CHOOSE i \in 1..Len(StringOrder) : StringOrder[i] = s

StringLess(x, y) == Rank(x) < Rank(y)

\* iteration order of a std::map / std::set keyed by strings
RECURSIVE SortedSeq(_)
SortedSeq(S) ==
    IF S = {} THEN <<>>
    ELSE LET m == CHOOSE x \in S : \A y \in S \ {x} : StringLess(x, y)
         IN  <<m>> \o SortedSeq(S \ {m})

Range(f) == {f[x] : x \in DOMAIN f}

(***************************************************************************)
(* DependencyRegister<T>: std::map id -> reference, modelled as a function *)
(* whose domain is the set of registered ids.                              *)
(***************************************************************************)
EmptyRegister == [x \in {} |-> x]

\* DependencyRegister<T>::has
RegisterHas(register, id) == id \in DOMAIN register

\* variant of RegisterAdd: the duplicate check is missing and the entry is
\* overwritten (insert_or_assign instead of count + emplace)
RegisterAdd_Overwrite(register, id, dependency) ==
    [error |-> "none",
     register |-> [x \in DOMAIN register \cup {id} |->
                      IF x = id THEN dependency ELSE register[x]]]

\* DependencyRegister<T>::add : throws DependencyDuplicated, else emplaces
RegisterAdd(register, id, dependency) ==
    IF RegisterHas(register, id)
    THEN [error |-> "DependencyDuplicated", register |-> register]
    ELSE [error |-> "none", register |-> register @@ (id :> dependency)]

\* variant of RegisterAll: the ids are listed from the largest to the
\* smallest (the map is walked backwards)
RegisterAll_Backwards(register) ==
    LET ids == SortedSeq(DOMAIN register)
    IN  [i \in 1..Len(ids) |-> ids[Len(ids) + 1 - i]]

\* DependencyRegister<T>::all : ids in map order
RegisterAll(register) == SortedSeq(DOMAIN register)

\* DependencyRegister<T>::get() : references in map order
RegisterGetAll(register) ==
    LET ids == RegisterAll(register)
    IN  [i \in 1..Len(ids) |-> register[ids[i]]]

\* DependencyRegister<T>::get(id) : throws DependencyNotFound
RegisterGet(register, id) ==
    IF id \in DOMAIN register
    THEN [error |-> "none", ref |-> register[id]]
    ELSE [error |-> "DependencyNotFound", ref |-> "null"]

(***************************************************************************)
(* DependencyRegistry: std::set of registers ordered by type name,         *)
(* modelled as a function type name -> register.                           *)
(***************************************************************************)
EmptyRegistry == [t \in {} |-> EmptyRegister]

\* DependencyRegistry::add<T> : find or create the register, then delegate
RegistryAdd(registry, type, id, dependency) ==
    LET located == IF type \in DOMAIN registry
                   THEN registry
                   ELSE registry @@ (type :> EmptyRegister)
        r == RegisterAdd(located[type], id, dependency)
    IN  [error |-> r.error,
         registry |-> [located EXCEPT ![type] = r.register]]

\* DependencyRegistry::has<T>
RegistryHas(registry, type, id) ==
    IF type \notin DOMAIN registry THEN FALSE
    ELSE RegisterHas(registry[type], id)

\* DependencyRegistry::get<T>() : all references of one type
RegistryGetAll(registry, type) ==
    IF type \notin DOMAIN registry THEN <<>>
    ELSE RegisterGetAll(registry[type])

\* variant of RegistryGet: the register lookup result is not checked, a
\* missing register behaves as an empty one
RegistryGet_NoRegisterCheck(registry, type, id) ==
    IF type \notin DOMAIN registry
    THEN RegisterGet(EmptyRegister, id)
    ELSE RegisterGet(registry[type], id)

\* DependencyRegistry::get<T>(id)
RegistryGet(registry, type, id) ==
    IF type \notin DOMAIN registry
    THEN [error |-> "DependencyRegisterNotFound", ref |-> "null"]
    ELSE RegisterGet(registry[type], id)

\* DependencyRegistry::all : (type, id) pairs, registers in type-name order
RECURSIVE RegistryAllFrom(_, _)
RegistryAllFrom(registry, types) ==
    IF types = <<>> THEN <<>>
    ELSE LET ids == RegisterAll(registry[Head(types)])
         IN  [i \in 1..Len(ids) |-> <<Head(types), ids[i]>>]
             \o RegistryAllFrom(registry, Tail(types))

\* variant of RegistryAll: the outer loop stops after the first register
RegistryAll_FirstRegisterOnly(registry) ==
    IF DOMAIN registry = {} THEN <<>>
    ELSE RegistryAllFrom(registry, <<Head(SortedSeq(DOMAIN registry))>>)

RegistryAll(registry) == RegistryAllFrom(registry, SortedSeq(DOMAIN registry))

(***************************************************************************)
(* The component classes known to the program.  User components are        *)
(* opaque to the container: it sees their customization list               *)
(* (Component<T, as<I>..., side<S>...>), their constructors and whether    *)
(* the constructor body raises.                                            *)
(*   Leaf    : Component<Leaf, as<IA>, as<IB>>,      Leaf()                *)
(*   Join    : Component<Join, as<IC>>,              Join(IA&, IB&)        *)
(*   Multi   : Component<Multi, as<IB>>,             Multi(), Multi(IA&)   *)
(*   Sider   : Component<Sider, side<IS>, side<IT>>, Sider()               *)
(*   Thrower : Component<Thrower, as<IA>>,           Thrower() raises      *)
(* "Ghost" is a type name for which no factory is registered.              *)
(***************************************************************************)
ComponentTypes == {"Leaf", "Join", "Multi", "Sider", "Thrower"}

TypeNames == ComponentTypes \cup {"Ghost"}

\* a component type that lists one customization twice:
\* class Twice : public Component<Twice, side<IS>, side<IS>>
RepeatedTypes == {"Twice"}

As(I) == [kind |-> "as", type |-> I]

Side(S) == [kind |-> "side", type |-> S]

Customizations(type) ==
    CASE type = "Leaf"    -> <<As("IA"), As("IB")>>
      [] type = "Join"    -> <<As("IC")>>
      [] type = "Multi"   -> <<As("IB")>>
      [] type = "Sider"   -> <<Side("IS"), Side("IT")>>
      [] type = "Thrower" -> <<As("IA")>>
      [] type = "Twice"   -> <<Side("IS"), Side("IS")>>

\* parameter interface types of each public constructor
Constructors(type) ==
    CASE type = "Join"  -> {<<"IA", "IB">>}
      [] type = "Multi" -> {<<>>, <<"IA">>}
      [] OTHER          -> {<<>>}

CtorRaises(type) == type = "Thrower"

AsTypes(type) ==
    {Customizations(type)[i].type : i \in
        {j \in 1..Len(Customizations(type)) : Customizations(type)[j].kind = "as"}}

SideTypes(type) ==
    {Customizations(type)[i].type : i \in
        {j \in 1..Len(Customizations(type)) : Customizations(type)[j].kind = "side"}}

\* what a side(SideDependencies<S>&) hook may fill in: side-id -> object
SideMaps == UNION {[ids -> Objs] : ids \in SUBSET SideIds}

\* the yields of all side hooks of one component instance
SideYields(type) == [SideTypes(type) -> SideMaps]

\* a reference to the component itself seen as interface I, or to one of
\* the objects it owns
Ref(owner, iface, part) == [owner |-> owner, iface |-> iface, part |-> part]

(***************************************************************************)
(* FactoryRegistry: std::set of references to factories ordered by the     *)
(* type name of the factory, modelled as a set of factories of which no    *)
(* two are equivalent under FactoryComparator.  A factory is the type name *)
(* it builds and the identity of the Factory<T> object.                    *)
(***************************************************************************)
Factory(type, obj) == [type |-> type, obj |-> obj]

\* FactoryRegistry::has
FactoryRegistryHas(factories, type) == \E f \in factories : f.type = type

\* FactoryRegistry::get : throws FactoryNotFound
FactoryRegistryGet(factories, type) ==
    IF FactoryRegistryHas(factories, type)
    THEN [error |-> "none",
          factory |-> CHOOSE f \in factories : f.type = type]
    ELSE [error |-> "FactoryNotFound", factory |-> "null"]

\* FactoryRegistry::all : type names in set order
FactoryRegistryAll(factories) == SortedSeq({f.type : f \in factories})

\* variant of FactoryRegistryAdd: the factory is inserted whatever the
\* registry holds (a multiset)
FactoryRegistryAdd_Multi(factories, factory) ==
    [result |-> TRUE, factories |-> factories \cup {factory}]

\* FactoryRegistry::add : std::set::emplace, .second tells whether the
\* factory was inserted
FactoryRegistryAdd(factories, factory) ==
    IF \E f \in factories : f.type = factory.type
    THEN [result |-> FALSE, factories |-> factories]
    ELSE [result |-> TRUE, factories |-> factories \cup {factory}]

\* FactoryRegistry::remove : find by the type name of the factory, erase
FactoryRegistryRemove(factories, factory) ==
    {f \in factories : f.type # factory.type}

\* the registry after the static FactoryRegisterer<T> object of each of the
\* types was constructed
StaticFactories(types) == {Factory(t, 1) : t \in types}

(***************************************************************************)
(* Component<T, as<U>, Vs...>::registerAs and                              *)
(* Component<T, side<U>, Vs...>::registerAs                                *)
(***************************************************************************)
\* variant of IsBaseOfCustomization: the guard against double registration
\* fires whenever another customization of the same kind follows
IsBaseOfCustomization_SameKindFollows(rest, custom) ==
    \E i \in 1..Len(rest) : rest[i].kind = custom.kind

\* std::is_base_of<Component<T, Vs...>, as<U>> (resp. side<U>): as<U> and
\* side<U> are empty structs without base classes
IsBaseOfCustomization(rest, custom) == FALSE

\* variant of RegisterSides: composite ids are only compared within one
\* side-dependency type, so the same side-id may be used by two types
RECURSIVE RegisterSides_PerSideType(_, _, _, _, _, _)
RegisterSides_PerSideType(sideIds, yields, U, comp, identifiers, registry) ==
    IF sideIds = <<>>
    THEN [error |-> "none", registry |-> registry, identifiers |-> identifiers]
    ELSE LET sid == Head(sideIds)
             composite == comp.id \o "_" \o sid
         IN  IF sid = ""
             THEN [error |-> "float", registry |-> registry,
                   identifiers |-> identifiers]
             ELSE LET r == RegistryAdd(registry, U, composite,
                                       Ref(comp.entry, U, yields[sid]))
                  IN  IF r.error # "none"
                      THEN [error |-> r.error, registry |-> r.registry,
                            identifiers |-> identifiers \cup {composite}]
                      ELSE RegisterSides_PerSideType(Tail(sideIds), yields, U,
                                                     comp,
                                                     identifiers \cup {composite},
                                                     r.registry)

\* variant of RegisterSides: the side dependency is registered under the
\* bare side-id, without the component id prefix
RECURSIVE RegisterSides_NoPrefix(_, _, _, _, _, _)
RegisterSides_NoPrefix(sideIds, yields, U, comp, identifiers, registry) ==
    IF sideIds = <<>>
    THEN [error |-> "none", registry |-> registry, identifiers |-> identifiers]
    ELSE LET sid == Head(sideIds)
             composite == sid
         IN  IF sid = ""
             THEN [error |-> "float", registry |-> registry,
                   identifiers |-> identifiers]
             ELSE IF composite \in identifiers
             THEN [error |-> "int", registry |-> registry,
                   identifiers |-> identifiers]
             ELSE LET r == RegistryAdd(registry, U, composite,
                                       Ref(comp.entry, U, yields[sid]))
                  IN  IF r.error # "none"
                      THEN [error |-> r.error, registry |-> r.registry,
                            identifiers |-> identifiers \cup {composite}]
                      ELSE RegisterSides_NoPrefix(Tail(sideIds), yields, U,
                                                  comp,
                                                  identifiers \cup {composite},
                                                  r.registry)

\* the loop over the SideDependencies<U> map (sorted by side-id)
RECURSIVE RegisterSides(_, _, _, _, _, _)
RegisterSides(sideIds, yields, U, comp, identifiers, registry) ==
    IF sideIds = <<>>
    THEN [error |-> "none", registry |-> registry, identifiers |-> identifiers]
    ELSE LET sid == Head(sideIds)
             composite == comp.id \o "_" \o sid
         IN  IF sid = ""
             THEN [error |-> "float", registry |-> registry,
                   identifiers |-> identifiers]
             ELSE IF composite \in identifiers
             THEN [error |-> "int", registry |-> registry,
                   identifiers |-> identifiers]
             ELSE LET r == RegistryAdd(registry, U, composite,
                                       Ref(comp.entry, U, yields[sid]))
                  IN  IF r.error # "none"
                      THEN [error |-> r.error, registry |-> r.registry,
                            identifiers |-> identifiers \cup {composite}]
                      ELSE RegisterSides(Tail(sideIds), yields, U, comp,
                                         identifiers \cup {composite},
                                         r.registry)

RECURSIVE RegisterAs(_, _, _, _)
RegisterAs(customs, comp, identifiers, registry) ==
    IF customs = <<>>
    THEN \* Component<T>::registerAs
         [error |-> "none", registry |-> registry, identifiers |-> identifiers]
    ELSE LET c == Head(customs)
             rest == Tail(customs)
         IN  IF c.kind = "as"
             THEN LET r == IF ~IsBaseOfCustomization(rest, c)
                           THEN RegistryAdd(registry, c.type, comp.id,
                                            Ref(comp.entry, c.type, "self"))
                           ELSE [error |-> "none", registry |-> registry]
                  IN  IF r.error # "none"
                      THEN [error |-> r.error, registry |-> r.registry,
                            identifiers |-> identifiers]
                      ELSE RegisterAs(rest, comp, identifiers, r.registry)
             ELSE LET r == IF ~IsBaseOfCustomization(rest, c)
                           THEN RegisterSides(
                                    SortedSeq(DOMAIN comp.sides[c.type]),
                                    comp.sides[c.type], c.type, comp,
                                    identifiers, registry)
                           ELSE [error |-> "none", registry |-> registry,
                                 identifiers |-> identifiers]
                  IN  IF r.error # "none"
                      THEN r
                      ELSE RegisterAs(rest, comp, r.identifiers, r.registry)

(***************************************************************************)
(* State.                                                                  *)
(***************************************************************************)
VARIABLES
    topology,              \* the Topology object handed to Build::Build
    factories_,            \* FactoryRegistry::factories_
    initializer_,          \* Component<T>::initializer_, one slot per type
    dependencyRegisters_,  \* Build::dependencyRegistry_ / the registry under test
    stack,                 \* Build::componentStack_.stack, top is the last element
    entryIdx,              \* position of the range-for of Build::Build
    pc,                    \* where the program is
    error,                 \* the exception that reached the caller, or "none"
    raised,                \* the exception raised inside the failing call, or "none"
    log,                   \* component / registry lifetime events, in order
    lastCall,              \* the last call made on the object under test
    history,               \* the registry adds made so far
    threads,               \* the threads that construct a Build concurrently
    json_,                 \* TopologyLoader::json_
    capacity,              \* topology.capacity()
    registerers,           \* the FactoryRegisterer objects alive
    entryBuilders          \* per entry: the TopologyEntryBuilder returned
                           \* for it still refers to it

vars == <<topology, factories_, initializer_, dependencyRegisters_, stack,
          entryIdx, pc, error, raised, log, lastCall, history, threads, json_,
                   capacity, entryBuilders, registerers>>

\* a moved-from std::string and a moved-from Config
MovedFromId == ""

EmptyConfig == {}

ConfigValues == {{c} : c \in Configs}

NoCall == [op |-> "none"]

\* no second thread, no loader
NoThreads == <<>>

NoJson == [kind |-> "none"]

(***************************************************************************)
(* Factory<T>::build                                                       *)
(***************************************************************************)
\* Factory<T>::Constructor::construct<Ints...>: try 0, 1, 2, ... injectors
\* until std::is_constructible<T, Injector...> holds
RECURSIVE Construct(_, _)
Construct(type, n) ==
    IF \E params \in Constructors(type) : Len(params) = n
    THEN CHOOSE params \in Constructors(type) : Len(params) = n
    ELSE Construct(type, n + 1)

\* dependencyIds_[Ints]: std::vector::operator[] is unchecked, an index past
\* the end reads whatever the build finds there
DependencyIdAt(dependencyIds, j, garbage) ==
    IF j <= Len(dependencyIds) THEN dependencyIds[j] ELSE garbage

\* Factory<T>::Injector::operator U&
Injector(registry, dependencyId, U) == RegistryGet(registry, U, dependencyId)

\* variant of Injections: the pack of dependency ids is expanded in the
\* opposite order to the parameters
Injections_Reversed(registry, params, dependencyIds, garbage) ==
    [j \in 1..Len(params) |->
        Injector(registry,
                 DependencyIdAt(dependencyIds, Len(params) + 1 - j, garbage),
                 params[j])]

\* the injectors of one constructor call
Injections(registry, params, dependencyIds, garbage) ==
    [j \in 1..Len(params) |->
        Injector(registry, DependencyIdAt(dependencyIds, j, garbage), params[j])]

\* the conversion that fails first; the order in which the arguments of the
\* constructor call are converted is left to the compiler
FirstFailure(injections, evalOrder) ==
    LET failing == {j \in 1..Len(injections) : injections[j].error # "none"}
        first == IF evalOrder = "ltr"
                 THEN CHOOSE j \in failing : \A i \in failing : j <= i
                 ELSE CHOOSE j \in failing : \A i \in failing : j >= i
    IN  IF failing = {} THEN "none" ELSE injections[first].error

\* variant of Stash: the config is not handed over
Stash_IdOnly(initializer, type, id, config) ==
    [initializer EXCEPT ![type].first = id]

\* Component<T>::initializer_ after the two move assignments at the head of
\* Factory<T>::build
Stash(initializer, type, id, config) ==
    [initializer EXCEPT ![type] = [first |-> id, second |-> config]]

\* Factory<T>::build(id, dependencyIds, config, dependencyRegistry) for the
\* topology entry number entry; yields, garbage and evalOrder are what the
\* user component and the build contribute.
\* outcome: "ok"        - the component is returned
\*          "throw"     - error propagates to the caller of build
\*          "terminate" - an exception met a noexcept boundary (std::terminate)
\*                        or the out-of-range read crashed
FactoryBuild(type, entry, id, dependencyIds, config, registry, initializer, yields, garbage, evalOrder) ==
    LET stashed == Stash(initializer, type, id, config)
        params == Construct(type, 0)
        injections == Injections(registry, params, dependencyIds, garbage)
        failure == FirstFailure(injections, evalOrder)
        comp == [type |-> type,
                 entry |-> entry,
                 id |-> stashed[type].first,
                 config |-> stashed[type].second,
                 args |-> [j \in 1..Len(params) |-> injections[j].ref],
                 sides |-> yields,
                 sideDependencyIdentifiers_ |-> {}]
        taken == [stashed EXCEPT ![type] =
                     [first |-> MovedFromId, second |-> EmptyConfig]]
        reg == RegisterAs(Customizations(type), comp, {}, registry)
    IN  IF Len(params) > Len(dependencyIds) /\ garbage = "#crash"
        THEN [outcome |-> "terminate", error |-> "crash",
              registry |-> registry, initializer |-> stashed,
              events |-> <<>>]
        ELSE IF failure # "none"
        THEN [outcome |-> "terminate", error |-> failure,
              registry |-> registry, initializer |-> stashed,
              events |-> <<>>]
        ELSE IF CtorRaises(type)
        THEN [outcome |-> "terminate", error |-> "UserError",
              registry |-> registry, initializer |-> taken,
              events |-> <<>>]
        ELSE IF reg.error # "none"
        THEN [outcome |-> "throw", error |-> reg.error,
              registry |-> reg.registry, initializer |-> taken,
              events |-> << <<"ctor", entry>>, <<"dtor", entry>> >>]
        ELSE [outcome |-> "ok", error |-> "none",
              registry |-> reg.registry, initializer |-> taken,
              events |-> << <<"ctor", entry>> >>,
              component |-> [comp EXCEPT
                  !.sideDependencyIdentifiers_ = reg.identifiers]]

(***************************************************************************)
(* Build                                                                   *)
(***************************************************************************)
\* variant of DrainStack: the components are released from the bottom of
\* the stack upwards (a queue instead of a stack)
RECURSIVE DrainStack_Fifo(_)
DrainStack_Fifo(s) ==
    IF s = <<>> THEN <<>>
    ELSE << <<"dtor", s[1].entry>> >> \o DrainStack_Fifo(Tail(s))

\* Build::ComponentStack::~ComponentStack: pop until empty
RECURSIVE DrainStack(_)
DrainStack(s) ==
    IF s = <<>> THEN <<>>
    ELSE << <<"dtor", s[Len(s)].entry>> >> \o DrainStack(SubSeq(s, 1, Len(s) - 1))

\* destruction of the members of Build, in reverse order of declaration:
\* componentStack_ first, dependencyRegistry_ last
DestroyMembers(s) == DrainStack(s) \o << <<"registry_dtor", 0>> >>

\* values an out-of-range dependencyIds_[i] may be read as, or a crash;
\* nothing is read out of range when the entry lists enough ids
GarbageReads(type, dependencyIds) ==
    IF Len(Construct(type, 0)) > Len(dependencyIds)
    THEN Ids \cup {"", "#crash"}
    ELSE {"unread"}

\* left-to-right or right-to-left conversion of the constructor arguments
EvalOrders(type) ==
    IF Len(Construct(type, 0)) >= 2 THEN {"ltr", "rtl"} ELSE {"ltr"}

\* what one iteration of the range-for in Build::Build was given and how
\* it ended: the topology entry as it was before the call, the side
\* dependencies the component yielded, and the outcome of Factory::build
BuildCall(entry, e, yields, outcome, err) ==
    [op |-> "build", entry |-> entry, type |-> e.type, id |-> e.id,
     dependencyIds |-> e.dependencyIds, config |-> e.config,
     sides |-> yields, outcome |-> outcome, error |-> err]

\* one iteration of the range-for in Build::Build
BuildEntry ==
    /\ pc = "constructing"
    /\ entryIdx <= Len(topology)
    /\ LET e == topology[entryIdx] IN
       IF FactoryRegistryGet(factories_, e.type).error # "none"
       THEN \* FactoryRegistry::get throws FactoryNotFound
            /\ pc' = "threw"
            /\ error' = "FactoryNotFound"
            /\ raised' = "FactoryNotFound"
            /\ log' = log \o DestroyMembers(stack)
            /\ stack' = <<>>
            /\ dependencyRegisters_' = EmptyRegistry
            /\ lastCall' = BuildCall(entryIdx, e, <<>>, "throw",
                                     "FactoryNotFound")
            /\ UNCHANGED <<topology, initializer_, entryIdx>>
       ELSE \E yields \in SideYields(e.type),
               garbage \in GarbageReads(e.type, e.dependencyIds),
               evalOrder \in EvalOrders(e.type) :
            LET r == FactoryBuild(e.type, entryIdx, e.id, e.dependencyIds,
                                  e.config, dependencyRegisters_,
                                  initializer_, yields, garbage, evalOrder)
            IN  /\ topology' = [topology EXCEPT
                       ![entryIdx].id = MovedFromId,
                       ![entryIdx].config = EmptyConfig]
                /\ initializer_' = r.initializer
                /\ raised' = r.error
                /\ lastCall' = BuildCall(entryIdx, e, yields, r.outcome,
                                         r.error)
                /\ CASE r.outcome = "ok" ->
                          /\ stack' = Append(stack, r.component)
                          /\ dependencyRegisters_' = r.registry
                          /\ log' = log \o r.events
                          /\ entryIdx' = entryIdx + 1
                          /\ UNCHANGED <<pc, error>>
                     [] r.outcome = "throw" ->
                          /\ pc' = "threw"
                          /\ error' = r.error
                          /\ log' = log \o r.events \o DestroyMembers(stack)
                          /\ stack' = <<>>
                          /\ dependencyRegisters_' = EmptyRegistry
                          /\ UNCHANGED entryIdx
                     [] r.outcome = "terminate" ->
                          /\ pc' = "terminated"
                          /\ UNCHANGED <<stack, dependencyRegisters_, log,
                                         entryIdx, error>>
    /\ UNCHANGED <<factories_, history, threads, json_,
                   capacity, entryBuilders, registerers>>

\* the range-for is exhausted: Build::Build returns
BuildReturn ==
    /\ pc = "constructing"
    /\ entryIdx > Len(topology)
    /\ pc' = "built"
    /\ UNCHANGED <<topology, factories_, initializer_, dependencyRegisters_,
                   stack, entryIdx, error, raised, log, lastCall, history,
                   threads, json_,
                   capacity, entryBuilders, registerers>>

\* Build::~Build
BuildDestroy ==
    /\ pc = "built"
    /\ pc' = "destroyed"
    /\ log' = log \o DestroyMembers(stack)
    /\ stack' = <<>>
    /\ dependencyRegisters_' = EmptyRegistry
    /\ UNCHANGED <<topology, factories_, initializer_, entryIdx, error,
                   raised, lastCall, history, threads, json_,
                   capacity, entryBuilders, registerers>>

\* the constructor arities of a type; a type without factory has none and
\* its entries list no dependencies
Arities(type) ==
    IF type \in ComponentTypes THEN {Len(p) : p \in Constructors(type)} ELSE {0}

\* the topologies a caller may hand to Build::Build: every entry lists the
\* dependency ids for one of the constructors of its type
TopologyEntries ==
    UNION {[type : {t}, id : Ids,
            dependencyIds : UNION {[1..n -> Ids] : n \in Arities(t)},
            config : ConfigValues] : t \in TypeNames}

Topologies == UNION {[1..n -> TopologyEntries] : n \in 0..MaxEntries}

NoInitializer == [t \in ComponentTypes \cup RepeatedTypes |->
                     [first |-> MovedFromId, second |-> EmptyConfig]]

Init ==
    /\ topology \in Topologies
    /\ factories_ = StaticFactories(ComponentTypes)
    /\ initializer_ = NoInitializer
    /\ dependencyRegisters_ = EmptyRegistry
    /\ stack = <<>>
    /\ entryIdx = 1
    /\ pc = "constructing"
    /\ error = "none"
    /\ raised = "none"
    /\ log = <<>>
    /\ lastCall = NoCall
    /\ history = {}
    /\ threads = NoThreads
    /\ json_ = NoJson
    /\ capacity = 0
    /\ entryBuilders = <<>>
    /\ registerers = <<>>

Next == BuildEntry \/ BuildReturn \/ BuildDestroy

Spec == Init /\ [][Next]_vars

\* Build::all, Build::has<T>, Build::get<T>(), Build::get<T>(id)
BuildAll == RegistryAll(dependencyRegisters_)

BuildHas(T, id) == RegistryHas(dependencyRegisters_, T, id)

BuildGetAll(T) == RegistryGetAll(dependencyRegisters_, T)

BuildGet(T, id) == RegistryGet(dependencyRegisters_, T, id)

(***************************************************************************)
(* A DependencyRegistry used on its own: any sequence of add and get       *)
(* calls with dependencies owned by the caller.                            *)
(***************************************************************************)
RegistryTypes == {"IA", "IB"}

\* objects of the caller, each implementing every interface
CallerObjs == {"x", "y"}

RegistryAddCall ==
    /\ pc = "registry"
    /\ \E T \in RegistryTypes, id \in Ids, o \in CallerObjs :
         LET r == RegistryAdd(dependencyRegisters_, T, id, Ref(0, T, o))
             call == [op |-> "add", type |-> T, id |-> id,
                      dependency |-> Ref(0, T, o), error |-> r.error]
         IN  /\ dependencyRegisters_' = r.registry
             /\ lastCall' = call
             /\ history' = history \cup {call}
    /\ UNCHANGED <<topology, factories_, initializer_, stack, entryIdx, pc,
                   error, raised, log, threads, json_,
                   capacity, entryBuilders, registerers>>

RegistryGetCall ==
    /\ pc = "registry"
    /\ \E T \in RegistryTypes, id \in Ids :
         LET r == RegistryGet(dependencyRegisters_, T, id)
         IN  lastCall' = [op |-> "get", type |-> T, id |-> id,
                          error |-> r.error, ref |-> r.ref]
    /\ UNCHANGED <<topology, factories_, initializer_, dependencyRegisters_,
                   stack, entryIdx, pc, error, raised, log, history, threads,
                   json_,
                   capacity, entryBuilders, registerers>>

InitRegistry ==
    /\ topology = <<>>
    /\ factories_ = StaticFactories(ComponentTypes)
    /\ initializer_ = NoInitializer
    /\ dependencyRegisters_ = EmptyRegistry
    /\ stack = <<>>
    /\ entryIdx = 1
    /\ pc = "registry"
    /\ error = "none"
    /\ raised = "none"
    /\ log = <<>>
    /\ lastCall = NoCall
    /\ history = {}
    /\ threads = NoThreads
    /\ json_ = NoJson
    /\ capacity = 0
    /\ entryBuilders = <<>>
    /\ registerers = <<>>

NextRegistry == RegistryAddCall \/ RegistryGetCall

SpecRegistry == InitRegistry /\ [][NextRegistry]_vars

(***************************************************************************)
(* Properties.                                                             *)
(***************************************************************************)
Ctors(n) == [k \in 1..n |-> <<"ctor", k>>]

DtorsDown(n) == [i \in 1..n |-> <<"dtor", n + 1 - i>>]

RegistryDtor == << <<"registry_dtor", 0>> >>

StackEntries == [i \in 1..Len(stack) |-> stack[i].entry]

\* C1: a Build constructed from a topology of n entries constructs the
\* components in topology order 1..n; destroying it destroys them in the
\* reverse order n..1, each once, and the dependency registry after the last
\* of them.
C1_ConstructionAndDestructionOrder ==
    /\ pc = "constructing" =>
          /\ log = Ctors(entryIdx - 1)
          /\ StackEntries = [i \in 1..(entryIdx - 1) |-> i]
    /\ pc = "built" =>
          /\ log = Ctors(Len(topology))
          /\ StackEntries = [i \in 1..Len(topology) |-> i]
    /\ pc = "destroyed" =>
          /\ log = Ctors(Len(topology)) \o DtorsDown(Len(topology))
                   \o RegistryDtor
          /\ stack = <<>>

C1_Witness ==
    /\ pc = "destroyed"
    /\ Len(topology) >= 2
    /\ log = Ctors(Len(topology)) \o DtorsDown(Len(topology)) \o RegistryDtor

\* C2: when Build::Build fails while building entry k, for any cause, no
\* later entry is built, the components built for the entries before k are
\* destroyed in reverse construction order, then the registry, and the
\* original error reaches the caller of the constructor.
C2_FailureUnwindsAndPropagates ==
    pc \in {"threw", "terminated"} =>
        /\ pc = "threw"
        /\ error # "none"
        /\ error = raised
        /\ \/ log = Ctors(entryIdx - 1) \o DtorsDown(entryIdx - 1)
                    \o RegistryDtor
           \/ log = Ctors(entryIdx) \o DtorsDown(entryIdx) \o RegistryDtor
        /\ stack = <<>>

\* the dependency of the entry being built that cannot be resolved, with the
\* error DependencyRegistry::get raises for it
UnresolvedAs(kind) ==
    /\ entryIdx <= Len(topology)
    /\ topology[entryIdx].type \in ComponentTypes
    /\ LET e == topology[entryIdx]
           params == Construct(e.type, 0)
       IN  \E j \in 1..Len(params) :
              /\ j <= Len(e.dependencyIds)
              /\ IF kind = "DependencyRegisterNotFound"
                 THEN params[j] \notin DOMAIN dependencyRegisters_
                 ELSE /\ params[j] \in DOMAIN dependencyRegisters_
                      /\ e.dependencyIds[j]
                            \notin DOMAIN dependencyRegisters_[params[j]]

\* C3: a dependency id resolved against an interface without register fails
\* with DependencyRegisterNotFound, one missing from an existing register
\* with DependencyNotFound, and that typed error is delivered to the caller
\* of the Build constructor.
C3_ResolutionErrorReachesCaller ==
    raised \in {"DependencyRegisterNotFound", "DependencyNotFound"} =>
        /\ UnresolvedAs(raised)
        /\ pc = "threw"
        /\ error = raised

\* C4: when a component is built through the constructor (I1..Im) from an
\* entry with dependency ids (d1..dm), its j-th argument is the reference
\* registry.get[Ij](dj) of the registry at that moment.
C4_ArgumentsResolvedPositionally ==
    [][Len(stack') = Len(stack) + 1 =>
         LET c == stack'[Len(stack')]
             e == topology[entryIdx]
             params == Construct(c.type, 0)
         IN  Len(e.dependencyIds) = Len(params) =>
                /\ Len(c.args) = Len(params)
                /\ \A j \in 1..Len(params) :
                      RegistryGet(dependencyRegisters_, params[j],
                                  e.dependencyIds[j])
                         = [error |-> "none", ref |-> c.args[j]]]_vars

C4_Witness ==
    \E i \in 1..Len(stack) :
        /\ stack[i].type = "Join"
        /\ topology[i].dependencyIds = <<"a", "b">>
        /\ stack[i].args = <<Ref(1, "IA", "self"), Ref(2, "IB", "self")>>

\* C5: the constructor called has exactly as many parameters as the entry
\* has dependency ids: none of the listed ids is left unused.
C5_ArityEqualsDependencyIds ==
    \A i \in 1..Len(stack) :
        Len(stack[i].args) = Len(topology[stack[i].entry].dependencyIds)

\* C6: once a component with id x that declares as<I1>..as<Ik> is built, the
\* registry maps every (Ij, x) to that component instance.
C6_RegisteredAsDeclaredInterfaces ==
    \A i \in 1..Len(stack) :
        \A I \in AsTypes(stack[i].type) :
            BuildGet(I, stack[i].id)
               = [error |-> "none", ref |-> Ref(stack[i].entry, I, "self")]

C6_Witness ==
    \E i \in 1..Len(stack) :
        /\ Cardinality(AsTypes(stack[i].type)) = 2
        /\ \A I \in AsTypes(stack[i].type) : BuildHas(I, stack[i].id)

\* the registrations the built components stand for: themselves under every
\* declared interface, and every side dependency they yielded
Registered ==
    UNION {
        {<<I, stack[i].id, Ref(stack[i].entry, I, "self")>> :
            I \in AsTypes(stack[i].type)}
        \cup
        UNION {
            {<<S, stack[i].id \o "_" \o sid,
               Ref(stack[i].entry, S, stack[i].sides[S][sid])>> :
                sid \in DOMAIN stack[i].sides[S]} :
            S \in SideTypes(stack[i].type)}
        : i \in 1..Len(stack)}

InterfaceTypes == {"IA", "IB", "IC", "IS", "IT"}

RegistryIds == Ids \cup {id \o "_" \o sid : id \in Ids, sid \in SideIds \ {""}}

\* C7: after a successful Build, has[I](x) holds iff something was registered
\* as I under x, get[I](x) is that instance, get[I]() lists exactly the
\* instances registered as I, and all() lists exactly the registered
\* (type, id) pairs.
C7_LookupMatchesRegistrations ==
    pc = "built" =>
        /\ \A I \in InterfaceTypes, x \in RegistryIds :
              /\ BuildHas(I, x) <=> \E r \in Registered : r[1] = I /\ r[2] = x
              /\ \A r \in Registered :
                    r[1] = I /\ r[2] = x =>
                       BuildGet(I, x) = [error |-> "none", ref |-> r[3]]
        /\ \A I \in InterfaceTypes :
              /\ Range(BuildGetAll(I)) = {r[3] : r \in {q \in Registered : q[1] = I}}
              /\ Len(BuildGetAll(I)) = Cardinality(Range(BuildGetAll(I)))
        /\ Range(BuildAll) = {<<r[1], r[2]>> : r \in Registered}
        /\ Len(BuildAll) = Cardinality(Range(BuildAll))

C7_Witness ==
    /\ pc = "built"
    /\ Cardinality(Registered) >= 4
    /\ \E r \in Registered : r[3].part # "self"
    /\ Len(BuildAll) = Cardinality(Registered)

AddsOf(T) == {h \in history : h.type = T}

\* C8: an add of (I, x) that is already registered fails with
\* DependencyDuplicated and leaves the registry unchanged, so get[I](x) still
\* returns the reference added first; an add of (J, x) not yet registered
\* succeeds whatever other types hold x.  No (type, id) is added twice.
C8_DuplicateAddRejected ==
    [][lastCall'.op = "add" =>
         LET T == lastCall'.type
             x == lastCall'.id
         IN  /\ RegistryHas(dependencyRegisters_, T, x) =>
                   /\ lastCall'.error = "DependencyDuplicated"
                   /\ dependencyRegisters_' = dependencyRegisters_
                   /\ RegistryGet(dependencyRegisters_', T, x)
                         = RegistryGet(dependencyRegisters_, T, x)
             /\ ~RegistryHas(dependencyRegisters_, T, x) =>
                   /\ lastCall'.error = "none"
                   /\ RegistryGet(dependencyRegisters_', T, x)
                         = [error |-> "none", ref |-> lastCall'.dependency]
                   /\ \A J \in RegistryTypes \ {T}, y \in Ids :
                         RegistryGet(dependencyRegisters_', J, y)
                            = RegistryGet(dependencyRegisters_, J, y)
             /\ \A J \in RegistryTypes, y \in Ids :
                   Cardinality({h \in history' :
                       h.type = J /\ h.id = y /\ h.error = "none"}) <= 1]_vars

C8_Witness ==
    /\ lastCall.op = "add"
    /\ lastCall.error = "DependencyDuplicated"
    /\ RegistryGet(dependencyRegisters_, lastCall.type, lastCall.id).ref
          # lastCall.dependency
    /\ \E J \in RegistryTypes \ {lastCall.type} :
          RegistryHas(dependencyRegisters_, J, lastCall.id)

C10_SideDependenciesRegistered ==
    \A i \in 1..Len(stack) :
        \A S \in SideTypes(stack[i].type) :
            \A sid \in DOMAIN stack[i].sides[S] :
                BuildGet(S, stack[i].id \o "_" \o sid)
                   = [error |-> "none",
                      ref |-> Ref(stack[i].entry, S, stack[i].sides[S][sid])]

C10_Witness ==
    \E i \in 1..Len(stack) :
        /\ stack[i].type = "Sider"
        /\ stack[i].id = "b"
        /\ DOMAIN stack[i].sides["IT"] = {"s"}
        /\ BuildHas("IT", "b_s")

(***************************************************************************)
(* C11: side-ids are unique across the whole component.                    *)
(***************************************************************************)
\* the side-ids a component yielded for more than one side-dependency type
SharedSideIds(sides) ==
    {sid \in SideIds : \E S1 \in DOMAIN sides, S2 \in DOMAIN sides :
        S1 # S2 /\ sid \in DOMAIN sides[S1] /\ sid \in DOMAIN sides[S2]}

\* the side-ids a component yielded at all
YieldedSideIds(sides) == UNION {DOMAIN sides[S] : S \in DOMAIN sides}

\* C11: when a component that yields one side-id for two of its declared
\* side-dependency types is registered, the build is aborted with an error
\* (pc "threw", nothing left of the Build); when no side-id is empty and
\* none of the composite ids is taken in the registry, so that the shared
\* side-id is the only fault, the error is the raw int thrown for a
\* duplicate composite id. No such component is ever part of a Build.
C11_SharedSideIdAbortsBuild ==
    [][(pc = "constructing" /\ entryIdx <= Len(topology)
        /\ lastCall'.op = "build"
        /\ SharedSideIds(lastCall'.sides) # {})
       => /\ pc' = "threw"
          /\ error' \in {"int", "float", "DependencyDuplicated"}
          /\ stack' = <<>>
          /\ dependencyRegisters_' = EmptyRegistry
          /\ ("" \notin YieldedSideIds(lastCall'.sides)
              /\ \A S \in DOMAIN lastCall'.sides :
                   \A sid \in DOMAIN lastCall'.sides[S] :
                    ~RegistryHas(dependencyRegisters_, S,
                                 lastCall'.id \o "_" \o sid))
             => error' = "int"]_vars

\* a component yielded "s" for both IS and IT after another component was
\* built, and the build was aborted with the raw int
C11_Witness ==
    /\ pc = "threw"
    /\ error = "int"
    /\ lastCall.op = "build"
    /\ lastCall.entry = 2
    /\ lastCall.type = "Sider"
    /\ "s" \in SharedSideIds(lastCall.sides)

(***************************************************************************)
(* C12: a customization listed twice. Builds of topologies made of Twice   *)
(* and Leaf components, with factories registered for both.                *)
(***************************************************************************)
RepeatedEntries ==
    [type : RepeatedTypes \cup {"Leaf"}, id : Ids, dependencyIds : {<<>>},
     config : ConfigValues]

RepeatedTopologies == UNION {[1..n -> RepeatedEntries] : n \in 0..MaxEntries}

InitRepeated ==
    /\ topology \in RepeatedTopologies
    /\ factories_ = StaticFactories(RepeatedTypes \cup {"Leaf"})
    /\ initializer_ = NoInitializer
    /\ dependencyRegisters_ = EmptyRegistry
    /\ stack = <<>>
    /\ entryIdx = 1
    /\ pc = "constructing"
    /\ error = "none"
    /\ raised = "none"
    /\ log = <<>>
    /\ lastCall = NoCall
    /\ history = {}
    /\ threads = NoThreads
    /\ json_ = NoJson
    /\ capacity = 0
    /\ entryBuilders = <<>>
    /\ registerers = <<>>

SpecRepeated == InitRepeated /\ [][Next]_vars

\* the composite ids of the side dependencies a build call yielded
CompositeIds(call) ==
    {<<S, call.id \o "_" \o sid>> :
        S \in DOMAIN call.sides, sid \in YieldedSideIds(call.sides)}

\* C12: when a component whose customization list names side<IS> twice is
\* built, none of its side-ids is empty and none of its composite ids is
\* taken, the build of the entry succeeds and every side dependency it
\* yielded is registered (once) under its composite id.
C12_RepeatedCustomizationRegisteredOnce ==
    [][(pc = "constructing" /\ entryIdx <= Len(topology)
        /\ lastCall'.op = "build"
        /\ lastCall'.type \in RepeatedTypes
        /\ "" \notin YieldedSideIds(lastCall'.sides)
        /\ \A k \in CompositeIds(lastCall') :
              ~RegistryHas(dependencyRegisters_, k[1], k[2]))
       => /\ lastCall'.outcome = "ok"
          /\ pc' = "constructing"
          /\ \A k \in CompositeIds(lastCall') :
                RegistryHas(dependencyRegisters_', k[1], k[2])]_vars

(***************************************************************************)
(* C13: enumerations do not depend on the order of insertion.              *)
(***************************************************************************)
\* the add calls that registered something
SuccessfulAdds == {h \in history : h.op = "add" /\ h.error = "none"}

\* (T1, x1) comes before (T2, x2): by type name, then by id
PairLess(p, q) ==
    \/ StringLess(p[1], q[1])
    \/ p[1] = q[1] /\ StringLess(p[2], q[2])

\* C13: whatever the order of the add calls, all() lists exactly the
\* registered (type, id) pairs in ascending order of type name and, within
\* one type, of id; get[T]() lists the references registered as T in
\* ascending order of their ids: its i-th element is the reference whose id
\* has exactly i - 1 smaller ids registered under T.
C13_EnumerationsSorted ==
    pc = "registry" =>
        LET all == RegistryAll(dependencyRegisters_)
        IN  /\ \A i \in 1..Len(all), j \in 1..Len(all) :
                  i < j => PairLess(all[i], all[j])
            /\ Range(all) = {<<h.type, h.id>> : h \in SuccessfulAdds}
            /\ \A T \in RegistryTypes :
                  LET got == RegistryGetAll(dependencyRegisters_, T)
                      ofT == {h \in SuccessfulAdds : h.type = T}
                  IN  /\ Len(got) = Cardinality(ofT)
                      /\ \A i \in 1..Len(got) :
                            \E h \in ofT :
                               /\ got[i] = h.dependency
                               /\ Cardinality({k \in ofT :
                                      StringLess(k.id, h.id)}) = i - 1

\* four dependencies are registered and the one that sorts first was added
\* last
C13_Witness ==
    /\ pc = "registry"
    /\ Len(RegistryAll(dependencyRegisters_)) = 4
    /\ lastCall.op = "add"
    /\ lastCall.error = "none"
    /\ lastCall.type = "IA"
    /\ lastCall.id = "a"
    /\ RegistryGetAll(dependencyRegisters_, "IA")[1] = lastCall.dependency

(***************************************************************************)
(* C14: two threads, each constructing its own Build from its own          *)
(* one-entry topology, after the FactoryRegistry was populated and is no   *)
(* longer modified.  Each thread has its own DependencyRegistry and        *)
(* component stack; Component<T>::initializer_ is a static member, one     *)
(* slot per component type for the whole process.  The statements of       *)
(* Factory<T>::build of the two threads interleave.                        *)
(***************************************************************************)
Threads == {1, 2}

\* component types without constructor parameters
ThreadTypes == {"Leaf", "Multi"}

ThreadEntries ==
    [type : ThreadTypes, id : Ids, dependencyIds : {<<>>},
     config : ConfigValues \cup {EmptyConfig}]

\* a thread about to run Build::Build on the topology <<e>>
ThreadStart(e) ==
    [pc |-> "start", given |-> e, entry |-> e, registry |-> EmptyRegistry,
     stack |-> <<>>]

\* Factory.h 79: initializer_.first = std::move(id)
ThreadStashId(t) ==
    /\ pc = "concurrent"
    /\ threads[t].pc = "start"
    /\ FactoryRegistryGet(factories_, threads[t].entry.type).error = "none"
    /\ initializer_' = [initializer_ EXCEPT
           ![threads[t].entry.type].first = threads[t].entry.id]
    /\ threads' = [threads EXCEPT ![t].pc = "stashedId",
                                  ![t].entry.id = MovedFromId]
    /\ UNCHANGED <<topology, factories_, dependencyRegisters_, stack,
                   entryIdx, pc, error, raised, log, lastCall, history, json_,
                   capacity, entryBuilders, registerers>>

\* Factory.h 80: initializer_.second = std::move(config)
ThreadStashConfig(t) ==
    /\ pc = "concurrent"
    /\ threads[t].pc = "stashedId"
    /\ initializer_' = [initializer_ EXCEPT
           ![threads[t].entry.type].second = threads[t].entry.config]
    /\ threads' = [threads EXCEPT ![t].pc = "stashed",
                                  ![t].entry.config = EmptyConfig]
    /\ UNCHANGED <<topology, factories_, dependencyRegisters_, stack,
                   entryIdx, pc, error, raised, log, lastCall, history, json_,
                   capacity, entryBuilders, registerers>>

\* Factory.h 82, Component.h 107: the constructor of the component moves
\* the id and the config out of initializer_
ThreadConstruct(t) ==
    /\ pc = "concurrent"
    /\ threads[t].pc = "stashed"
    /\ LET type == threads[t].entry.type
           comp == [type |-> type,
                    entry |-> t,
                    id |-> initializer_[type].first,
                    config |-> initializer_[type].second,
                    args |-> <<>>,
                    sides |-> <<>>,
                    sideDependencyIdentifiers_ |-> {}]
       IN  /\ initializer_' = [initializer_ EXCEPT
                  ![type] = [first |-> MovedFromId, second |-> EmptyConfig]]
           /\ threads' = [threads EXCEPT ![t].pc = "constructed",
                                         ![t].stack = <<comp>>]
    /\ UNCHANGED <<topology, factories_, dependencyRegisters_, stack,
                   entryIdx, pc, error, raised, log, lastCall, history, json_,
                   capacity, entryBuilders, registerers>>

\* Factory.h 84, Build.h 35-36: the component is registered in the registry
\* of the thread's own Build and Build::Build returns
ThreadRegister(t) ==
    /\ pc = "concurrent"
    /\ threads[t].pc = "constructed"
    /\ LET comp == threads[t].stack[1]
           r == RegisterAs(Customizations(comp.type), comp, {},
                           threads[t].registry)
       IN  threads' = [threads EXCEPT ![t].pc = "built",
                                      ![t].registry = r.registry]
    /\ UNCHANGED <<topology, factories_, initializer_, dependencyRegisters_,
                   stack, entryIdx, pc, error, raised, log, lastCall, history,
                   json_,
                   capacity, entryBuilders, registerers>>

\* both threads are between their first write to and their read of the same
\* initializer_ slot: the accesses are unsynchronized, the behaviour is
\* undefined and the process may as well crash
ThreadRace ==
    /\ pc = "concurrent"
    /\ \E t \in Threads, u \in Threads :
          /\ t # u
          /\ threads[t].entry.type = threads[u].entry.type
          /\ threads[t].pc \in {"stashedId", "stashed"}
          /\ threads[u].pc \in {"stashedId", "stashed"}
    /\ pc' = "terminated"
    /\ raised' = "crash"
    /\ UNCHANGED <<topology, factories_, initializer_, dependencyRegisters_,
                   stack, entryIdx, error, log, lastCall, history, threads,
                   json_,
                   capacity, entryBuilders, registerers>>

InitConcurrent ==
    /\ topology = <<>>
    /\ factories_ = StaticFactories(ComponentTypes)
    /\ initializer_ = NoInitializer
    /\ dependencyRegisters_ = EmptyRegistry
    /\ stack = <<>>
    /\ entryIdx = 1
    /\ pc = "concurrent"
    /\ error = "none"
    /\ raised = "none"
    /\ log = <<>>
    /\ lastCall = NoCall
    /\ history = {}
    /\ threads \in {[t \in Threads |-> ThreadStart(e[t])] :
                       e \in [Threads -> ThreadEntries]}
    /\ json_ = NoJson
    /\ capacity = 0
    /\ entryBuilders = <<>>
    /\ registerers = <<>>

NextConcurrent ==
    \/ \E t \in Threads : ThreadStashId(t)
    \/ \E t \in Threads : ThreadStashConfig(t)
    \/ \E t \in Threads : ThreadConstruct(t)
    \/ \E t \in Threads : ThreadRegister(t)
    \/ ThreadRace

SpecConcurrent == InitConcurrent /\ [][NextConcurrent]_vars

\* C14: the two Builds do not interfere: the process does not crash and
\* every component a thread constructed carries the id and the config of
\* the topology entry that thread was given, and is registered under that id
\* in the thread's own registry once the Build is complete.
C14_ConcurrentBuildsDoNotInterfere ==
    pc = "concurrent" \/ pc = "terminated" =>
        /\ pc # "terminated"
        /\ \A t \in DOMAIN threads :
              /\ threads[t].pc \in {"constructed", "built"} =>
                    /\ threads[t].stack[1].id = threads[t].given.id
                    /\ threads[t].stack[1].config = threads[t].given.config
              /\ threads[t].pc = "built" =>
                    \A I \in AsTypes(threads[t].given.type) :
                       RegistryHas(threads[t].registry, I, threads[t].given.id)

(***************************************************************************)
(* C15: the FactoryRegistry used on its own: any sequence of add, remove   *)
(* and get calls with the factories of the program.                        *)
(***************************************************************************)
FactoryTypes == {"Join", "Leaf", "Multi"}

\* two Factory<T> objects exist for every type (one per FactoryRegisterer<T>)
FactoryObjs == {1, 2}

Factories == {Factory(t, o) : t \in FactoryTypes, o \in FactoryObjs}

FactoryAddCall ==
    /\ pc = "factories"
    /\ \E f \in Factories :
         LET r == FactoryRegistryAdd(factories_, f)
         IN  /\ factories_' = r.factories
             /\ lastCall' = [op |-> "add", factory |-> f, result |-> r.result]
    /\ UNCHANGED <<topology, initializer_, dependencyRegisters_, stack,
                   entryIdx, pc, error, raised, log, history, threads, json_,
                   capacity, entryBuilders, registerers>>

FactoryRemoveCall ==
    /\ pc = "factories"
    /\ \E f \in Factories :
         /\ factories_' = FactoryRegistryRemove(factories_, f)
         /\ lastCall' = [op |-> "remove", factory |-> f]
    /\ UNCHANGED <<topology, initializer_, dependencyRegisters_, stack,
                   entryIdx, pc, error, raised, log, history, threads, json_,
                   capacity, entryBuilders, registerers>>

FactoryGetCall ==
    /\ pc = "factories"
    /\ \E type \in FactoryTypes \cup {"Ghost"} :
         LET r == FactoryRegistryGet(factories_, type)
         IN  lastCall' = [op |-> "get", type |-> type, error |-> r.error,
                          factory |-> r.factory]
    /\ UNCHANGED <<topology, factories_, initializer_, dependencyRegisters_,
                   stack, entryIdx, pc, error, raised, log, history, threads,
                   json_,
                   capacity, entryBuilders, registerers>>

InitFactories ==
    /\ topology = <<>>
    /\ factories_ = {}
    /\ initializer_ = NoInitializer
    /\ dependencyRegisters_ = EmptyRegistry
    /\ stack = <<>>
    /\ entryIdx = 1
    /\ pc = "factories"
    /\ error = "none"
    /\ raised = "none"
    /\ log = <<>>
    /\ lastCall = NoCall
    /\ history = {}
    /\ threads = NoThreads
    /\ json_ = NoJson
    /\ capacity = 0
    /\ entryBuilders = <<>>
    /\ registerers = <<>>

NextFactories == FactoryAddCall \/ FactoryRemoveCall \/ FactoryGetCall

SpecFactories == InitFactories /\ [][NextFactories]_vars

\* the factories registered for a type name
FactoriesOf(factories, type) == {f \in factories : f.type = type}

\* C15: the registry never holds two factories of one type name; add(f)
\* returns true and inserts f (and nothing else changes) iff no factory of
\* f's type was registered, otherwise it returns false and the registry is
\* unchanged; get(type) returns the one factory registered for type, or
\* fails with FactoryNotFound when there is none.
C15_OneFactoryPerTypeName ==
    /\ [](pc = "factories" =>
            \A f \in factories_, g \in factories_ : f.type = g.type => f = g)
    /\ [][/\ lastCall'.op = "add" =>
               LET f == lastCall'.factory
               IN  IF FactoriesOf(factories_, f.type) = {}
                   THEN /\ lastCall'.result = TRUE
                        /\ factories_' = factories_ \cup {f}
                   ELSE /\ lastCall'.result = FALSE
                        /\ factories_' = factories_
          /\ lastCall'.op = "get" /\ pc = "factories" =>
               IF FactoriesOf(factories_, lastCall'.type) = {}
               THEN lastCall'.error = "FactoryNotFound"
               ELSE /\ lastCall'.error = "none"
                    /\ FactoriesOf(factories_, lastCall'.type)
                          = {lastCall'.factory}]_vars

\* an add was rejected because the other factory of the type is registered,
\* and that factory is still the registered one
C15_Witness ==
    /\ pc = "factories"
    /\ lastCall.op = "add"
    /\ lastCall.result = FALSE
    /\ FactoryRegistryGet(factories_, lastCall.factory.type).error = "none"
    /\ FactoryRegistryGet(factories_, lastCall.factory.type).factory
          # lastCall.factory
    /\ Cardinality(factories_) = 2

(***************************************************************************)
(* Integers of up to 64 bits.  A mathematical integer is a sign and a      *)
(* magnitude of four 16-bit limbs, most significant limb first; zero is    *)
(* never negative.  Conversions between the integer types of the program   *)
(* are computed on this representation as the machine computes them:       *)
(* modulo 2^w, two's complement.                                           *)
(***************************************************************************)
Limb == 2^16

Num(neg, mag) == [neg |-> neg, mag |-> mag]

\* an integer 0 <= n < 2^16
FromNat(n) == Num(FALSE, <<0, 0, 0, n>>)

Zero == FromNat(0)

One == FromNat(1)

MinusOne == Num(TRUE, <<0, 0, 0, 1>>)

MagLess(a, b) ==
    \E i \in 1..4 : a[i] < b[i] /\ \A j \in 1..(i - 1) : a[j] = b[j]

IntLess(x, y) ==
    CASE x.neg /\ ~y.neg  -> TRUE
      [] ~x.neg /\ y.neg  -> FALSE
      [] ~x.neg /\ ~y.neg -> MagLess(x.mag, y.mag)
      [] x.neg /\ y.neg   -> MagLess(y.mag, x.mag)

IntLeq(x, y) == x = y \/ IntLess(x, y)

\* m + 1, modulo 2^64
MagSucc(m) ==
    IF m[4] < Limb - 1 THEN <<m[1], m[2], m[3], m[4] + 1>>
    ELSE IF m[3] < Limb - 1 THEN <<m[1], m[2], m[3] + 1, 0>>
    ELSE IF m[2] < Limb - 1 THEN <<m[1], m[2] + 1, 0, 0>>
    ELSE <<(m[1] + 1) % Limb, 0, 0, 0>>

\* m - 1, for m > 0
MagPred(m) ==
    IF m[4] > 0 THEN <<m[1], m[2], m[3], m[4] - 1>>
    ELSE IF m[3] > 0 THEN <<m[1], m[2], m[3] - 1, Limb - 1>>
    ELSE IF m[2] > 0 THEN <<m[1], m[2] - 1, Limb - 1, Limb - 1>>
    ELSE <<m[1] - 1, Limb - 1, Limb - 1, Limb - 1>>

\* 2^w - 1 for 0 <= w <= 64
Mask(w) ==
    [i \in 1..4 |->
        LET low == 16 * (4 - i)
        IN  IF w >= low + 16 THEN Limb - 1
            ELSE IF w > low THEN 2^(w - low) - 1
            ELSE 0]

\* m modulo 2^w
MagTrunc(m, w) == [i \in 1..4 |-> m[i] % (Mask(w)[i] + 1)]

\* (2^w - 1) - m for m < 2^w: every bit of the w-bit pattern flipped
MagFlip(m, w) == [i \in 1..4 |-> Mask(w)[i] - m[i]]

\* x + 1 and x - 1
IntSucc(x) ==
    IF ~x.neg THEN Num(FALSE, MagSucc(x.mag))
    ELSE IF x.mag = One.mag THEN Zero
    ELSE Num(TRUE, MagPred(x.mag))

IntPred(x) ==
    IF x.neg THEN Num(TRUE, MagSucc(x.mag))
    ELSE IF x = Zero THEN MinusOne
    ELSE Num(FALSE, MagPred(x.mag))

\* conversion to an unsigned type of w bits: the value modulo 2^w
ToUnsigned(x, w) ==
    IF ~x.neg
    THEN Num(FALSE, MagTrunc(x.mag, w))
    ELSE Num(FALSE, MagFlip(MagTrunc(MagPred(x.mag), w), w))

\* conversion to a signed type of w bits: the w-bit pattern of the value
\* read as two's complement
ToSigned(x, w) ==
    LET u == ToUnsigned(x, w).mag
    IN  IF ~MagLess(Mask(w - 1), u)
        THEN Num(FALSE, u)
        ELSE Num(TRUE, MagSucc(MagFlip(u, w)))

(***************************************************************************)
(* The integral types of the program (x86-64 Linux data model: char is     *)
(* signed, wchar_t is a signed 32-bit type, int64_t is long).              *)
(***************************************************************************)
IntType(signed, bits) == [signed |-> signed, bits |-> bits]

SizedTypes ==
    {"int8_t", "int16_t", "int32_t", "int64_t",
     "uint8_t", "uint16_t", "uint32_t", "uint64_t"}

TypeOf(name) ==
    CASE name = "bool"               -> IntType(FALSE, 8)
      [] name = "char"               -> IntType(TRUE, 8)
      [] name = "int8_t"             -> IntType(TRUE, 8)
      [] name = "uint8_t"            -> IntType(FALSE, 8)
      [] name = "wchar_t"            -> IntType(TRUE, 32)
      [] name = "char16_t"           -> IntType(FALSE, 16)
      [] name = "char32_t"           -> IntType(FALSE, 32)
      [] name = "int16_t"            -> IntType(TRUE, 16)
      [] name = "uint16_t"           -> IntType(FALSE, 16)
      [] name = "int32_t"            -> IntType(TRUE, 32)
      [] name = "uint32_t"           -> IntType(FALSE, 32)
      [] name = "int64_t"            -> IntType(TRUE, 64)
      [] name = "uint64_t"           -> IntType(FALSE, 64)
      [] name = "long long"          -> IntType(TRUE, 64)
      [] name = "unsigned long long" -> IntType(FALSE, 64)

\* sizeof, in bytes
Sizeof(name) == TypeOf(name).bits \div 8

IsUnsigned(name) == ~TypeOf(name).signed

\* std::numeric_limits<T>::max() and ::min()
NumericMax(name) ==
    IF name = "bool" THEN One
    ELSE IF IsUnsigned(name) THEN Num(FALSE, Mask(TypeOf(name).bits))
    ELSE Num(FALSE, Mask(TypeOf(name).bits - 1))

NumericMin(name) ==
    IF IsUnsigned(name) THEN Zero
    ELSE Num(TRUE, MagSucc(Mask(TypeOf(name).bits - 1)))

\* static_cast<T>(x) for an integral T other than bool
StaticCast(name, x) ==
    IF IsUnsigned(name) THEN ToUnsigned(x, TypeOf(name).bits)
    ELSE ToSigned(x, TypeOf(name).bits)

\* integral promotion: a type narrower than int becomes int
Promoted(t) == IF t.bits < 32 THEN IntType(TRUE, 32) ELSE t

\* the usual arithmetic conversions: the type both operands of a comparison
\* are converted to
CommonType(A, B) ==
    LET a == Promoted(TypeOf(A))
        b == Promoted(TypeOf(B))
        u == IF a.signed THEN b ELSE a
        s == IF a.signed THEN a ELSE b
    IN  IF a.signed = b.signed
        THEN (IF a.bits >= b.bits THEN a ELSE b)
        ELSE IF u.bits >= s.bits THEN u ELSE s

ConvertTo(t, x) ==
    IF t.signed THEN ToSigned(x, t.bits) ELSE ToUnsigned(x, t.bits)

\* x <= y for x of type A and y of type B, as the built-in operator
\* computes it
BuiltinLeq(A, x, B, y) ==
    LET t == CommonType(A, B)
    IN  IntLeq(ConvertTo(t, x), ConvertTo(t, y))

(***************************************************************************)
(* CastChecker                                                             *)
(***************************************************************************)
\* the type list of IntegralCastChecker
IntegralTypes ==
    <<"bool", "char", "int8_t", "uint8_t", "wchar_t", "char16_t", "char32_t",
      "int16_t", "uint16_t", "int32_t", "uint32_t", "int64_t", "uint64_t",
      "long long", "unsigned long long">>

\* variant of InRange: the value is compared with both limits of the target
\* type whatever the signedness of the two types
InRange_BothLimits(target, source, data) ==
    /\ BuiltinLeq(target, NumericMin(target), source, data)
    /\ BuiltinLeq(source, data, target, NumericMax(target))

\* CastChecker::inRange<T target, U source>(data), both overloads
InRange(target, source, data) ==
    IF IsUnsigned(target) = IsUnsigned(source)
    THEN /\ BuiltinLeq(target, NumericMin(target), source, data)
         /\ BuiltinLeq(source, data, target, NumericMax(target))
    ELSE /\ BuiltinLeq(source, StaticCast(source, Zero), source, data)
         /\ BuiltinLeq(source, data, target, NumericMax(target))

\* CastChecker::castable<T, U, Vs...>: walk the type list
RECURSIVE Castable(_, _, _, _)
Castable(source, data, typeInfo, types) ==
    IF types = <<>> THEN FALSE
    ELSE \/ /\ Head(types) = typeInfo
            /\ Sizeof(Head(types)) <= Sizeof(source)
            /\ InRange(Head(types), source, data)
         \/ Castable(source, data, typeInfo, Tail(types))

\* IntegralCastChecker::check(data, typeInfo) for data of type source
Check(source, data, typeInfo) ==
    Castable(source, data, typeInfo, IntegralTypes)

\* the values around the limits of every sized type, and around zero
Landmarks ==
    {MinusOne, Zero, One}
    \cup UNION {{NumericMin(U), IntPred(NumericMin(U)), IntSucc(NumericMin(U)),
                 NumericMax(U), IntPred(NumericMax(U)), IntSucc(NumericMax(U))}
                : U \in SizedTypes}

\* the values a variable of a type may hold
ValuesOf(T) ==
    {v \in Landmarks : IntLeq(NumericMin(T), v) /\ IntLeq(v, NumericMax(T))}

\* TestCastChecker.cpp, test<T, U>: the five values checked
TestValues(T) ==
    <<NumericMin(T), StaticCast(T, MinusOne), StaticCast(T, Zero),
      StaticCast(T, One), NumericMax(T)>>

\* TestCastChecker.cpp, the expected results of the 64 test cases
ExpectedResults ==
    <<"int8_t", "int8_t">> :> <<TRUE, TRUE, TRUE, TRUE, TRUE>>
    @@ <<"int8_t", "int16_t">> :> <<FALSE, FALSE, FALSE, FALSE, FALSE>>
    @@ <<"int8_t", "int32_t">> :> <<FALSE, FALSE, FALSE, FALSE, FALSE>>
    @@ <<"int8_t", "int64_t">> :> <<FALSE, FALSE, FALSE, FALSE, FALSE>>
    @@ <<"int16_t", "int8_t">> :> <<FALSE, TRUE, TRUE, TRUE, FALSE>>
    @@ <<"int16_t", "int16_t">> :> <<TRUE, TRUE, TRUE, TRUE, TRUE>>
    @@ <<"int16_t", "int32_t">> :> <<FALSE, FALSE, FALSE, FALSE, FALSE>>
    @@ <<"int16_t", "int64_t">> :> <<FALSE, FALSE, FALSE, FALSE, FALSE>>
    @@ <<"int32_t", "int8_t">> :> <<FALSE, TRUE, TRUE, TRUE, FALSE>>
    @@ <<"int32_t", "int16_t">> :> <<FALSE, TRUE, TRUE, TRUE, FALSE>>
    @@ <<"int32_t", "int32_t">> :> <<TRUE, TRUE, TRUE, TRUE, TRUE>>
    @@ <<"int32_t", "int64_t">> :> <<FALSE, FALSE, FALSE, FALSE, FALSE>>
    @@ <<"int64_t", "int8_t">> :> <<FALSE, TRUE, TRUE, TRUE, FALSE>>
    @@ <<"int64_t", "int16_t">> :> <<FALSE, TRUE, TRUE, TRUE, FALSE>>
    @@ <<"int64_t", "int32_t">> :> <<FALSE, TRUE, TRUE, TRUE, FALSE>>
    @@ <<"int64_t", "int64_t">> :> <<TRUE, TRUE, TRUE, TRUE, TRUE>>
    @@ <<"int8_t", "uint8_t">> :> <<FALSE, FALSE, TRUE, TRUE, TRUE>>
    @@ <<"int8_t", "uint16_t">> :> <<FALSE, FALSE, FALSE, FALSE, FALSE>>
    @@ <<"int8_t", "uint32_t">> :> <<FALSE, FALSE, FALSE, FALSE, FALSE>>
    @@ <<"int8_t", "uint64_t">> :> <<FALSE, FALSE, FALSE, FALSE, FALSE>>
    @@ <<"int16_t", "uint8_t">> :> <<FALSE, FALSE, TRUE, TRUE, FALSE>>
    @@ <<"int16_t", "uint16_t">> :> <<FALSE, FALSE, TRUE, TRUE, TRUE>>
    @@ <<"int16_t", "uint32_t">> :> <<FALSE, FALSE, FALSE, FALSE, FALSE>>
    @@ <<"int16_t", "uint64_t">> :> <<FALSE, FALSE, FALSE, FALSE, FALSE>>
    @@ <<"int32_t", "uint8_t">> :> <<FALSE, FALSE, TRUE, TRUE, FALSE>>
    @@ <<"int32_t", "uint16_t">> :> <<FALSE, FALSE, TRUE, TRUE, FALSE>>
    @@ <<"int32_t", "uint32_t">> :> <<FALSE, FALSE, TRUE, TRUE, TRUE>>
    @@ <<"int32_t", "uint64_t">> :> <<FALSE, FALSE, FALSE, FALSE, FALSE>>
    @@ <<"int64_t", "uint8_t">> :> <<FALSE, FALSE, TRUE, TRUE, FALSE>>
    @@ <<"int64_t", "uint16_t">> :> <<FALSE, FALSE, TRUE, TRUE, FALSE>>
    @@ <<"int64_t", "uint32_t">> :> <<FALSE, FALSE, TRUE, TRUE, FALSE>>
    @@ <<"int64_t", "uint64_t">> :> <<FALSE, FALSE, TRUE, TRUE, TRUE>>
    @@ <<"uint8_t", "int8_t">> :> <<TRUE, FALSE, TRUE, TRUE, FALSE>>
    @@ <<"uint8_t", "int16_t">> :> <<FALSE, FALSE, FALSE, FALSE, FALSE>>
    @@ <<"uint8_t", "int32_t">> :> <<FALSE, FALSE, FALSE, FALSE, FALSE>>
    @@ <<"uint8_t", "int64_t">> :> <<FALSE, FALSE, FALSE, FALSE, FALSE>>
    @@ <<"uint16_t", "int8_t">> :> <<TRUE, FALSE, TRUE, TRUE, FALSE>>
    @@ <<"uint16_t", "int16_t">> :> <<TRUE, FALSE, TRUE, TRUE, FALSE>>
    @@ <<"uint16_t", "int32_t">> :> <<FALSE, FALSE, FALSE, FALSE, FALSE>>
    @@ <<"uint16_t", "int64_t">> :> <<FALSE, FALSE, FALSE, FALSE, FALSE>>
    @@ <<"uint32_t", "int8_t">> :> <<TRUE, FALSE, TRUE, TRUE, FALSE>>
    @@ <<"uint32_t", "int16_t">> :> <<TRUE, FALSE, TRUE, TRUE, FALSE>>
    @@ <<"uint32_t", "int32_t">> :> <<TRUE, FALSE, TRUE, TRUE, FALSE>>
    @@ <<"uint32_t", "int64_t">> :> <<FALSE, FALSE, FALSE, FALSE, FALSE>>
    @@ <<"uint64_t", "int8_t">> :> <<TRUE, FALSE, TRUE, TRUE, FALSE>>
    @@ <<"uint64_t", "int16_t">> :> <<TRUE, FALSE, TRUE, TRUE, FALSE>>
    @@ <<"uint64_t", "int32_t">> :> <<TRUE, FALSE, TRUE, TRUE, FALSE>>
    @@ <<"uint64_t", "int64_t">> :> <<TRUE, FALSE, TRUE, TRUE, FALSE>>
    @@ <<"uint8_t", "uint8_t">> :> <<TRUE, TRUE, TRUE, TRUE, TRUE>>
    @@ <<"uint8_t", "uint16_t">> :> <<FALSE, FALSE, FALSE, FALSE, FALSE>>
    @@ <<"uint8_t", "uint32_t">> :> <<FALSE, FALSE, FALSE, FALSE, FALSE>>
    @@ <<"uint8_t", "uint64_t">> :> <<FALSE, FALSE, FALSE, FALSE, FALSE>>
    @@ <<"uint16_t", "uint8_t">> :> <<TRUE, FALSE, TRUE, TRUE, FALSE>>
    @@ <<"uint16_t", "uint16_t">> :> <<TRUE, TRUE, TRUE, TRUE, TRUE>>
    @@ <<"uint16_t", "uint32_t">> :> <<FALSE, FALSE, FALSE, FALSE, FALSE>>
    @@ <<"uint16_t", "uint64_t">> :> <<FALSE, FALSE, FALSE, FALSE, FALSE>>
    @@ <<"uint32_t", "uint8_t">> :> <<TRUE, FALSE, TRUE, TRUE, FALSE>>
    @@ <<"uint32_t", "uint16_t">> :> <<TRUE, FALSE, TRUE, TRUE, FALSE>>
    @@ <<"uint32_t", "uint32_t">> :> <<TRUE, TRUE, TRUE, TRUE, TRUE>>
    @@ <<"uint32_t", "uint64_t">> :> <<FALSE, FALSE, FALSE, FALSE, FALSE>>
    @@ <<"uint64_t", "uint8_t">> :> <<TRUE, FALSE, TRUE, TRUE, FALSE>>
    @@ <<"uint64_t", "uint16_t">> :> <<TRUE, FALSE, TRUE, TRUE, FALSE>>
    @@ <<"uint64_t", "uint32_t">> :> <<TRUE, FALSE, TRUE, TRUE, FALSE>>
    @@ <<"uint64_t", "uint64_t">> :> <<TRUE, TRUE, TRUE, TRUE, TRUE>>

\* the arguments of a call: a variable of a sized type and a target type
CastArguments ==
    UNION {[op : {"args"}, source : {T}, target : SizedTypes,
            data : ValuesOf(T)] : T \in SizedTypes}

\* a call of IntegralCastChecker::check
CastCheckCall ==
    /\ pc = "cast"
    /\ lastCall.op = "args"
    /\ lastCall' = [op |-> "check", source |-> lastCall.source,
                    target |-> lastCall.target, data |-> lastCall.data,
                    result |-> Check(lastCall.source, lastCall.data,
                                     lastCall.target)]
    /\ UNCHANGED <<topology, factories_, initializer_, dependencyRegisters_,
                   stack, entryIdx, pc, error, raised, log, history, threads,
                   json_,
                   capacity, entryBuilders, registerers>>

\* a run of one test case test<T, U>
CastTestCall ==
    /\ pc = "cast"
    /\ lastCall.op = "args"
    /\ lastCall' = [op |-> "test", source |-> lastCall.source,
                    target |-> lastCall.target,
                    results |-> [i \in 1..5 |->
                        Check(lastCall.source, TestValues(lastCall.source)[i],
                              lastCall.target)]]
    /\ UNCHANGED <<topology, factories_, initializer_, dependencyRegisters_,
                   stack, entryIdx, pc, error, raised, log, history, threads,
                   json_,
                   capacity, entryBuilders, registerers>>

InitCast ==
    /\ topology = <<>>
    /\ factories_ = {}
    /\ initializer_ = NoInitializer
    /\ dependencyRegisters_ = EmptyRegistry
    /\ stack = <<>>
    /\ entryIdx = 1
    /\ pc = "cast"
    /\ error = "none"
    /\ raised = "none"
    /\ log = <<>>
    /\ lastCall \in CastArguments
    /\ history = {}
    /\ threads = NoThreads
    /\ json_ = NoJson
    /\ capacity = 0
    /\ entryBuilders = <<>>
    /\ registerers = <<>>

NextCast == CastCheckCall \/ CastTestCall

SpecCast == InitCast /\ [][NextCast]_vars

\* C16: check(v, U) for v of type T is true iff U is not larger than T and
\* the mathematical integer v lies between the limits of U; and the five
\* results of every test case test<T, U> are the expected ones.
C16_CheckIsSizeAndRange ==
    /\ (pc = "cast" /\ lastCall.op = "check") =>
          (lastCall.result <=>
              /\ Sizeof(lastCall.target) <= Sizeof(lastCall.source)
              /\ IntLeq(NumericMin(lastCall.target), lastCall.data)
              /\ IntLeq(lastCall.data, NumericMax(lastCall.target)))
    /\ (pc = "cast" /\ lastCall.op = "test") =>
          lastCall.results = ExpectedResults[<<lastCall.source, lastCall.target>>]

\* a negative 64-bit value passed the check for a narrower signed type
C16_Witness ==
    /\ pc = "cast"
    /\ lastCall.op = "check"
    /\ lastCall.source = "int64_t"
    /\ lastCall.target = "int16_t"
    /\ lastCall.data = NumericMin("int16_t")
    /\ lastCall.result

(***************************************************************************)
(* ConfigEntry<T> for an integral T: the value is kept in a member of type *)
(* T; value<U>() checks the cast and then reads the member through a       *)
(* pointer to U, that is the first sizeof(U) bytes of the member.          *)
(***************************************************************************)
ConfigEntry(key, type, value) == [key |-> key, type |-> type, value |-> value]

\* variant of ObjectBytes: the most significant byte comes first
ObjectBytes_BigEndian(T, v) ==
    LET pattern == ToUnsigned(v, TypeOf(T).bits).mag
        n == Sizeof(T)
    IN  [k \in 1..n |->
            LET limb == pattern[4 - ((n - k) \div 2)]
            IN  IF (n - k) % 2 = 0 THEN limb % 256 ELSE limb \div 256]

\* the bytes of a variable of type T holding v, in the order they lie in
\* memory (least significant byte first, two's complement)
ObjectBytes(T, v) ==
    LET pattern == ToUnsigned(v, TypeOf(T).bits).mag
    IN  [k \in 1..Sizeof(T) |->
            LET limb == pattern[4 - ((k - 1) \div 2)]
            IN  IF (k - 1) % 2 = 0 THEN limb % 256 ELSE limb \div 256]

\* *static_cast<const U*>(p): the value of the first sizeof(U) bytes at p
\* read as a U
ReadAs(U, bytes) ==
    LET byte(k) == IF k <= Sizeof(U) /\ k <= Len(bytes) THEN bytes[k] ELSE 0
        pattern == [i \in 1..4 |->
                       byte(2 * (4 - i) + 1) + 256 * byte(2 * (4 - i) + 2)]
    IN  StaticCast(U, Num(FALSE, pattern))

\* ConfigEntry<T>::value(typeInfo): the address of value_, or
\* ConfigEntryCastError
EntryValuePointer(entry, typeInfo) ==
    IF ~Check(entry.type, entry.value, typeInfo)
    THEN [error |-> "ConfigEntryCastError", bytes |-> <<>>]
    ELSE [error |-> "none", bytes |-> ObjectBytes(entry.type, entry.value)]

\* ConfigEntry<>::value<U>()
EntryValue(entry, U) ==
    LET p == EntryValuePointer(entry, U)
    IN  IF p.error # "none"
        THEN [error |-> p.error, value |-> "none"]
        ELSE [error |-> "none", value |-> ReadAs(U, p.bytes)]

\* value<U>() on an entry of type T holding v
ConfigValueCall ==
    /\ pc = "config"
    /\ lastCall.op = "args"
    /\ LET r == EntryValue(ConfigEntry("k", lastCall.source, lastCall.data),
                           lastCall.target)
       IN  lastCall' = [op |-> "value", source |-> lastCall.source,
                        target |-> lastCall.target, data |-> lastCall.data,
                        error |-> r.error, value |-> r.value]
    /\ UNCHANGED <<topology, factories_, initializer_, dependencyRegisters_,
                   stack, entryIdx, pc, error, raised, log, history, threads,
                   json_,
                   capacity, entryBuilders, registerers>>

InitConfig ==
    /\ topology = <<>>
    /\ factories_ = {}
    /\ initializer_ = NoInitializer
    /\ dependencyRegisters_ = EmptyRegistry
    /\ stack = <<>>
    /\ entryIdx = 1
    /\ pc = "config"
    /\ error = "none"
    /\ raised = "none"
    /\ log = <<>>
    /\ lastCall \in CastArguments
    /\ history = {}
    /\ threads = NoThreads
    /\ json_ = NoJson
    /\ capacity = 0
    /\ entryBuilders = <<>>
    /\ registerers = <<>>

NextConfig == ConfigValueCall

SpecConfig == InitConfig /\ [][NextConfig]_vars

\* C17: for an entry stored as T with value v, value[T]() returns v;
\* value[U]() for a U narrower than T succeeds iff v lies between the limits
\* of U and then returns v; value[U]() for a U wider than T fails with
\* ConfigEntryCastError.  No other error occurs.
C17_ConfigValueRoundTrip ==
    (pc = "config" /\ lastCall.op = "value") =>
        LET T == lastCall.source
            U == lastCall.target
            v == lastCall.data
        IN  /\ lastCall.error \in {"none", "ConfigEntryCastError"}
            /\ T = U => lastCall.error = "none" /\ lastCall.value = v
            /\ Sizeof(U) < Sizeof(T) =>
                  /\ lastCall.error = "none" <=>
                        (IntLeq(NumericMin(U), v) /\ IntLeq(v, NumericMax(U)))
                  /\ lastCall.error = "none" => lastCall.value = v
            /\ Sizeof(U) > Sizeof(T) =>
                  lastCall.error = "ConfigEntryCastError"

\* the smallest int8_t was read as int8_t from an entry stored as int64_t
C17_Witness ==
    /\ pc = "config"
    /\ lastCall.op = "value"
    /\ lastCall.source = "int64_t"
    /\ lastCall.target = "int8_t"
    /\ lastCall.data = NumericMin("int8_t")
    /\ lastCall.error = "none"
    /\ lastCall.value = NumericMin("int8_t")

(***************************************************************************)
(* JSON values as nlohmann::json holds them after parsing: a kind and a    *)
(* value.  An object is a function from its keys to its members (a         *)
(* std::map: unique keys, iterated in key order); an integer literal is    *)
(* number_unsigned when it has no minus sign and number_integer otherwise; *)
(* a literal with a fraction is number_float.                              *)
(***************************************************************************)
Json(kind, value) == [kind |-> kind, value |-> value]

JsonString(s) == Json("string", s)

JsonBoolean(b) == Json("boolean", b)

JsonInteger(n) == IF n.neg THEN Json("integer", n) ELSE Json("unsigned", n)

JsonFloat == Json("float", "1.5")

JsonNull == Json("null", "null")

JsonArray(items) == Json("array", items)

JsonObject(members) == Json("object", members)

\* json::is_number_integer: true for number_unsigned as well
IsNumberInteger(json) == json.kind \in {"integer", "unsigned"}

\* json::get<uint64_t>() of a number: static_cast of the stored value
GetUint64(json) == StaticCast("uint64_t", json.value)

\* json::get<int64_t>() of a number
GetInt64(json) == StaticCast("int64_t", json.value)

(***************************************************************************)
(* TopologyBuilder                                                         *)
(***************************************************************************)
\* the outcome of a step of load(): the topology as it is left, and the
\* exception thrown, if any, with the end of its message
Loaded(topo) ==
    [error |-> "none", message |-> "", where |-> <<>>, topology |-> topo]

Thrown(kind, message, topo) ==
    [error |-> kind, message |-> message, where |-> <<>>, topology |-> topo]

\* variant of BuilderConstruct: the topology keeps its entries
BuilderConstruct_Keeping(topo) == topo

\* TopologyBuilder::TopologyBuilder: topology_.clear()
BuilderConstruct(topo) == SubSeq(topo, 1, 0)

\* variant of BuilderComponent: the id is not looked up first
BuilderComponent_Unchecked(topo, type, id) ==
    Loaded(Append(topo, [type |-> type, id |-> id, dependencyIds |-> <<>>,
                         config |-> {}]))

\* TopologyBuilder::component
BuilderComponent(topo, type, id) ==
    IF \E i \in 1..Len(topo) : topo[i].id = id
    THEN Thrown("ComponentIdDuplicated", id, topo)
    ELSE Loaded(Append(topo,
                       [type |-> type, id |-> id, dependencyIds |-> <<>>,
                        config |-> {}]))

\* TopologyEntryBuilder::dependency, topologyEntry_ being the i-th entry
EntryDependency(topo, i, id) ==
    [topo EXCEPT ![i].dependencyIds = Append(@, id)]

\* variant of EntryConfig: an entry of the same key is replaced
EntryConfig_Replacing(topo, i, key, T, value) ==
    Loaded([topo EXCEPT ![i].config =
               {e \in @ : e.key # key} \cup {ConfigEntry(key, T, value)}])

\* TopologyEntryBuilder::config<T>, topologyEntry_ being the i-th entry
EntryConfig(topo, i, key, T, value) ==
    IF \E e \in topo[i].config : e.key = key
    THEN Thrown("ConfigEntryKeyDuplicated", key, topo)
    ELSE Loaded([topo EXCEPT ![i].config =
                    @ \cup {ConfigEntry(key, T, value)}])

\* TopologyEntryBuilder::dependency, on the entry added last
BuilderDependency(topo, id) == EntryDependency(topo, Len(topo), id)

\* TopologyEntryBuilder::config<T>, on the entry added last
BuilderConfig(topo, key, T, value) ==
    EntryConfig(topo, Len(topo), key, T, value)

(***************************************************************************)
(* TopologyLoader.  Of a TopologyLoaderException the model keeps the text  *)
(* after " - " as message and what the prefix names as where: the index of *)
(* the component, then its type and id once they are known, then           *)
(* "Dependency" and the index of the dependency or "Config" and the key of *)
(* the entry.                                                              *)
(***************************************************************************)
UnsignedTypeNames == {"uint8_t", "uint16_t", "uint32_t", "uint64_t"}

SignedTypeNames == {"int8_t", "int16_t", "int32_t", "int64_t"}

LoaderError(where, message, topo) ==
    [Thrown("TopologyLoaderException", message, topo) EXCEPT !.where = where]

\* kv.key() of the k-th item of items() over an array
ItemKey(k) == <<"0", "1", "2", "3", "4", "5">>[k]

\* TopologyLoader::loadConfigEntry<T, U>: entryValue is of type U
LoadConfigEntryAs(T, U, entryValue, entryKey, at, topo) ==
    IF \/ IntLess(entryValue, StaticCast(U, NumericMin(T)))
       \/ IntLess(StaticCast(U, NumericMax(T)), entryValue)
    THEN LoaderError(
             at \o <<"Config", entryKey>>,
             "Config entry value shall be in range of its declared type.",
             topo)
    ELSE BuilderConfig(topo, entryKey, T, StaticCast(T, entryValue))

\* TopologyLoader::loadConfigEntry
LoadConfigEntry(entryKey, entryJson, at, topo) ==
    CASE entryJson.kind = "boolean" ->
           BuilderConfig(topo, entryKey, "bool", entryJson.value)
      [] entryJson.kind = "unsigned" ->
           BuilderConfig(topo, entryKey, "uint64_t", GetUint64(entryJson))
      [] entryJson.kind = "integer" ->
           BuilderConfig(topo, entryKey, "int64_t", GetInt64(entryJson))
      [] entryJson.kind = "string" ->
           BuilderConfig(topo, entryKey, "std::string", entryJson.value)
      [] entryJson.kind = "object" ->
           IF Cardinality(DOMAIN entryJson.value) # 1
           THEN LoaderError(at \o <<"Config", entryKey>>,
                            "Config entry object shall be of size 1.", topo)
           ELSE LET type == CHOOSE k \in DOMAIN entryJson.value : TRUE
                    js == entryJson.value[type]
                IN  IF type \in UnsignedTypeNames
                    THEN IF js.kind # "unsigned"
                         THEN LoaderError(
                                  at \o <<"Config", entryKey>>,
                                  "Config entry value type shall be unsigned integer.",
                                  topo)
                         ELSE LoadConfigEntryAs(type, "uint64_t",
                                                GetUint64(js), entryKey, at,
                                                topo)
                    ELSE IF type \in SignedTypeNames
                    THEN IF ~IsNumberInteger(js)
                         THEN LoaderError(
                                  at \o <<"Config", entryKey>>,
                                  "Config entry value type shall be integer.",
                                  topo)
                         ELSE \* const int64_t value = json.get<uint64_t>()
                              LoadConfigEntryAs(type, "int64_t",
                                  StaticCast("int64_t", GetUint64(js)),
                                  entryKey, at, topo)
                    ELSE LoaderError(
                             at \o <<"Config", entryKey>>,
                             "Config entry object type shall be one of {uint8_t, int8_t, uint16_t, int16_t, uint32_t, int32_t, uint64_t, int64_t}.",
                             topo)
      [] OTHER ->
           LoaderError(
               at \o <<"Config", entryKey>>,
               "Config entry type shall be one of {bool, ungigned int, signed int, string, object}.",
               topo)

\* the loop of TopologyLoader::loadConfig over the members, in key order
RECURSIVE LoadConfigEntries(_, _, _, _)
LoadConfigEntries(members, keys, at, topo) ==
    IF keys = <<>> THEN Loaded(topo)
    ELSE IF Head(keys) = ""
    THEN LoaderError(at, "Config shall not consist of empty keys.", topo)
    ELSE LET r == LoadConfigEntry(Head(keys), members[Head(keys)], at, topo)
         IN  IF r.error # "none" THEN r
             ELSE LoadConfigEntries(members, Tail(keys), at, r.topology)

\* TopologyLoader::loadConfig
LoadConfig(componentJson, at, topo) ==
    IF "config" \notin DOMAIN componentJson.value THEN Loaded(topo)
    ELSE LET js == componentJson.value["config"]
         IN  IF js.kind # "object"
             THEN LoaderError(at, "Config shall be an object.", topo)
             ELSE LoadConfigEntries(js.value, SortedSeq(DOMAIN js.value), at,
                                    topo)

\* TopologyLoader::loadDependency
LoadDependency(dependencyIndex, dependencyJson, at, topo) ==
    IF dependencyJson.kind = "string"
    THEN IF dependencyJson.value = ""
         THEN LoaderError(at \o <<"Dependency", dependencyIndex>>,
                          "Dependency id shall not be empty.", topo)
         ELSE Loaded(BuilderDependency(topo, dependencyJson.value))
    ELSE LoaderError(at \o <<"Dependency", dependencyIndex>>,
                     "Dependency type shall be a string.", topo)

\* the loop of TopologyLoader::loadDependencies over the array, from its
\* k-th item on
RECURSIVE LoadDependencyItems(_, _, _, _)
LoadDependencyItems(items, k, at, topo) ==
    IF k > Len(items) THEN Loaded(topo)
    ELSE LET r == LoadDependency(ItemKey(k), items[k], at, topo)
         IN  IF r.error # "none" THEN r
             ELSE LoadDependencyItems(items, k + 1, at, r.topology)

\* TopologyLoader::loadDependencies
LoadDependencies(componentJson, at, topo) ==
    IF "dependencies" \notin DOMAIN componentJson.value THEN Loaded(topo)
    ELSE LET js == componentJson.value["dependencies"]
         IN  IF js.kind # "array"
             THEN LoaderError(at, "Dependencies shall be an array.", topo)
             ELSE LoadDependencyItems(js.value, 1, at, topo)

\* TopologyLoader::loadType and TopologyLoader::loadId: the string found
\* under the key, what names the member in the messages
LoadName(componentIndex, componentJson, key, what, topo) ==
    IF key \notin DOMAIN componentJson.value
    THEN LoaderError(<<componentIndex>>,
                     "Component " \o what \o " shall be specified.", topo)
    ELSE IF componentJson.value[key].kind # "string"
    THEN LoaderError(<<componentIndex>>,
                     "Component " \o what \o " shall be a string.", topo)
    ELSE IF componentJson.value[key].value = ""
    THEN LoaderError(<<componentIndex>>,
                     "Component " \o what \o " shall not be empty.", topo)
    ELSE [error |-> "none", result |-> componentJson.value[key].value]

\* one iteration of the loop of TopologyLoader::load
LoadComponent(componentIndex, componentJson, topo) ==
    IF componentJson.kind # "object"
    THEN LoaderError(<<componentIndex>>, "Component shall be an object.", topo)
    ELSE LET componentType ==
                 LoadName(componentIndex, componentJson, "type", "type", topo)
             componentId ==
                 LoadName(componentIndex, componentJson, "id", "id", topo)
         IN  IF componentType.error # "none" THEN componentType
             ELSE IF componentId.error # "none" THEN componentId
             ELSE LET at == <<componentIndex, componentType.result,
                              componentId.result>>
                      c == BuilderComponent(topo, componentType.result,
                                            componentId.result)
                      d == LoadDependencies(componentJson, at, c.topology)
                  IN  IF c.error # "none" THEN c
                      ELSE IF d.error # "none" THEN d
                      ELSE LoadConfig(componentJson, at, d.topology)

\* the loop of TopologyLoader::load over the array, from its k-th item on
RECURSIVE LoadComponents(_, _, _)
LoadComponents(items, k, topo) ==
    IF k > Len(items) THEN Loaded(topo)
    ELSE LET r == LoadComponent(ItemKey(k), items[k], topo)
         IN  IF r.error # "none" THEN r
             ELSE LoadComponents(items, k + 1, r.topology)

\* variant of Load: a failed load leaves an empty topology behind
Load_RollingBack(js, topo) ==
    LET r == IF js.kind # "array"
             THEN LoaderError(<<>>, "Topology json shall be an array.", <<>>)
             ELSE LoadComponents(js.value, 1, <<>>)
    IN  IF r.error = "none" THEN r ELSE [r EXCEPT !.topology = <<>>]

\* TopologyLoader::load: the builder is constructed before the document is
\* looked at
Load(js, topo) ==
    LET cleared == BuilderConstruct(topo)
    IN  IF js.kind # "array"
        THEN LoaderError(<<>>, "Topology json shall be an array.", cleared)
        ELSE LoadComponents(js.value, 1, cleared)

(***************************************************************************)
(* The documents given to a TopologyLoader and the topology object handed  *)
(* to load().                                                              *)
(***************************************************************************)
MaxComponents == 2

\* a key that the object does not have
Absent == Json("absent", "absent")

Member(key, js) == IF js = Absent THEN <<>> ELSE (key :> js)

ComponentJson(type, id, dependencies, config) ==
    JsonObject(Member("type", type) @@ Member("id", id)
               @@ Member("dependencies", dependencies)
               @@ Member("config", config))

\* { "<type>" : n }
TypedValue(T, js) == JsonObject(T :> js)

\* the integers a document may hold as an integer literal: -2^63 .. 2^64-1
JsonIntegers ==
    {n \in Landmarks : IntLeq(NumericMin("int64_t"), n)
                       /\ IntLeq(n, NumericMax("uint64_t"))}

\* [ { "type" : "Leaf", "id" : "a", "config" : { "k" : { "<T>" : n } } } ]
TypedDocument(T, n) ==
    JsonArray(<<ComponentJson(JsonString("Leaf"), JsonString("a"), Absent,
                              JsonObject("k" :> TypedValue(T, JsonInteger(n))))>>)

TypedDocuments == {TypedDocument(T, n) : T \in SizedTypes, n \in JsonIntegers}

TypeJsons == {Absent, JsonString("Leaf"), JsonString(""), JsonNull}

IdJsons == {Absent, JsonString("a"), JsonString(""), JsonNull}

DependenciesJsons ==
    {Absent,
     JsonArray(<<JsonString("a"), JsonString("b")>>),
     JsonArray(<<JsonString("b"), JsonString("a")>>),
     JsonArray(<<JsonString("a"), JsonString("")>>),
     JsonArray(<<JsonString("a"), JsonNull>>),
     JsonString("a")}

ConfigJsons ==
    {Absent,
     JsonNull,
     JsonObject("" :> JsonBoolean(TRUE)),
     JsonObject("k" :> JsonBoolean(TRUE) @@ "m" :> JsonBoolean(FALSE)),
     JsonObject("k" :> JsonInteger(One) @@ "m" :> JsonInteger(MinusOne)),
     JsonObject("k" :> JsonString("v")
                @@ "m" :> TypedValue("uint8_t", JsonInteger(FromNat(255)))),
     JsonObject("k" :> JsonInteger(Zero) @@ "m" :> JsonFloat),
     JsonObject("k" :> JsonObject("int8_t" :> JsonInteger(One)
                                  @@ "uint8_t" :> JsonInteger(One))),
     JsonObject("k" :> TypedValue("float", JsonInteger(One))),
     JsonObject("k" :> TypedValue("int16_t", JsonFloat))}

\* documents of one component, well-formed or not
SingleDocuments ==
    {JsonArray(<<ComponentJson(t, i, d, c)>>) :
        t \in TypeJsons, i \in IdJsons, d \in DependenciesJsons,
        c \in ConfigJsons}

\* documents of several components
SeveralComponents ==
    {ComponentJson(JsonString("Leaf"), JsonString("a"), Absent, Absent),
     ComponentJson(JsonString("Leaf"), JsonString("b"), Absent,
                   JsonObject("k" :> JsonInteger(One))),
     ComponentJson(JsonString("Join"), JsonString("a"),
                   JsonArray(<<JsonString("a"), JsonString("b")>>), Absent),
     ComponentJson(JsonString("Leaf"), JsonString("b"),
                   JsonArray(<<JsonString("a")>>),
                   JsonObject("k" :> JsonInteger(One) @@ "m" :> JsonFloat)),
     JsonNull}

SeveralDocuments ==
    {JsonArray(items) :
        items \in UNION {[1..n -> SeveralComponents] : n \in 0..MaxComponents}}

Documents ==
    {JsonNull, JsonObject(<<>>)} \cup TypedDocuments \cup SingleDocuments
    \cup SeveralDocuments

\* what the topology object may hold when it is handed to load()
StaleTopology ==
    <<[type |-> "Leaf", id |-> "b", dependencyIds |-> <<"a">>, config |-> {}]>>

\* TopologyLoader::load(topology)
LoaderLoad ==
    /\ pc \in {"loader", "loaded"}
    /\ LET r == Load(json_, topology)
       IN  /\ topology' = r.topology
           /\ error' = r.error
           /\ raised' = r.error
           /\ lastCall' = [op |-> "load", error |-> r.error,
                           message |-> r.message, where |-> r.where,
                           held |-> topology]
    /\ pc' = "loaded"
    /\ UNCHANGED <<factories_, initializer_, dependencyRegisters_, stack,
                   entryIdx, log, history, threads, json_,
                   capacity, entryBuilders, registerers>>

InitLoader ==
    /\ topology \in {<<>>, StaleTopology}
    /\ factories_ = {}
    /\ initializer_ = NoInitializer
    /\ dependencyRegisters_ = EmptyRegistry
    /\ stack = <<>>
    /\ entryIdx = 1
    /\ pc = "loader"
    /\ error = "none"
    /\ raised = "none"
    /\ log = <<>>
    /\ lastCall = NoCall
    /\ history = {}
    /\ threads = NoThreads
    /\ json_ \in Documents
    /\ capacity = 0
    /\ entryBuilders = <<>>
    /\ registerers = <<>>

NextLoader == LoaderLoad

SpecLoader == InitLoader /\ [][NextLoader]_vars

\* v lies between the limits of T
InRangeOf(T, v) == IntLeq(NumericMin(T), v) /\ IntLeq(v, NumericMax(T))

\* C18: a config value { "<T>" : n } with an integer n in -2^63 .. 2^64-1 is
\* accepted iff n lies between the limits of T and is then stored as the
\* entry (key, T, n); otherwise load() throws TopologyLoaderException, with
\* the message "... unsigned integer." when n is negative and T is unsigned
\* and "... in range of its declared type." in every other case.
C18_TypedValueAcceptedIffInRange ==
    \A T \in SizedTypes, n \in JsonIntegers :
        (pc = "loaded" /\ json_ = TypedDocument(T, n)) =>
            IF InRangeOf(T, n)
            THEN /\ error = "none"
                 /\ Len(topology) = 1
                 /\ topology[1].config = {ConfigEntry("k", T, n)}
            ELSE /\ error = "TopologyLoaderException"
                 /\ lastCall.message =
                      IF n.neg /\ T \in UnsignedTypeNames
                      THEN "Config entry value type shall be unsigned integer."
                      ELSE "Config entry value shall be in range of its declared type."

\* the config type load() is to choose for a JSON value
DeclaredType(js) ==
    CASE js.kind = "boolean" -> "bool"
      [] js.kind = "unsigned" -> "uint64_t"
      [] js.kind = "integer" -> "int64_t"
      [] js.kind = "string" -> "std::string"
      [] js.kind = "object" -> CHOOSE T \in DOMAIN js.value : TRUE

\* the value a JSON config value denotes
DenotedValue(js) ==
    IF js.kind = "object"
    THEN js.value[CHOOSE T \in DOMAIN js.value : TRUE].value
    ELSE js.value

\* the value of a stored entry read at its own type
StoredValue(entry) ==
    IF entry.type \in SizedTypes
    THEN EntryValue(entry, entry.type).value
    ELSE entry.value

\* the strings of a JSON array of strings, in document order
StringsOf(js) ==
    IF js.kind = "array" THEN [k \in 1..Len(js.value) |-> js.value[k].value]
    ELSE <<>>

MemberOr(componentJson, key, default) ==
    IF key \in DOMAIN componentJson.value THEN componentJson.value[key]
    ELSE default

\* C19: after a successful load() the i-th entry holds, for every config
\* key of the i-th component, one entry whose type is given by the JSON form
\* of the value (boolean: bool, non-negative integer: uint64_t, negative
\* integer: int64_t, string: std::string, { "<T>" : n }: T) and whose value
\* read at that type equals the JSON value; its dependency ids are the
\* strings of "dependencies" in document order.
C19_StoredAsWritten ==
    (pc = "loaded" /\ error = "none") =>
        /\ Len(topology) = Len(json_.value)
        /\ \A i \in 1..Len(topology) :
             LET componentJson == json_.value[i]
                 configJson ==
                     MemberOr(componentJson, "config", JsonObject(<<>>))
             IN  /\ topology[i].dependencyIds =
                      StringsOf(MemberOr(componentJson, "dependencies",
                                         JsonArray(<<>>)))
                 /\ {e.key : e \in topology[i].config} =
                      DOMAIN configJson.value
                 /\ \A e \in topology[i].config :
                      /\ e.type = DeclaredType(configJson.value[e.key])
                      /\ StoredValue(e) = DenotedValue(configJson.value[e.key])

\* C20: load() ends without an error or with a TopologyLoaderException,
\* whatever the document is, a document with two components of one id
\* included.
C20_OnlyTopologyLoaderException ==
    pc = "loaded" => error \in {"none", "TopologyLoaderException"}

(***************************************************************************)
(* A TopologyBuilder in the hands of its user: component() and, on the     *)
(* TopologyEntryBuilder objects the user keeps, dependency() and config(). *)
(* A TopologyEntryBuilder refers to an element of the std::vector; when    *)
(* emplace_back has to grow the vector, the builders returned before refer *)
(* to released storage.                                                    *)
(***************************************************************************)
BuilderTypes == {"Join", "Leaf"}

BuilderIds == {"a", "b"}

BuilderKeys == {"k", "m"}

\* the typed values handed to config<T>
BuilderValues == {<<"uint8_t", One>>, <<"int64_t", MinusOne>>}

\* the capacity of a std::vector after it has grown by one element
Grown(cap) == IF cap = 0 THEN 1 ELSE 2 * cap

\* the builders after component() has added an entry
Rebound(topo, cap, builders) ==
    IF Len(topo) = cap
    THEN [i \in 1..(Len(topo) + 1) |-> i = Len(topo) + 1]
    ELSE Append(builders, TRUE)

BuilderCall(op, entry, args, err) ==
    [op |-> op, entry |-> entry, args |-> args, error |-> err]

\* topologyBuilder.component(type, id)
BuilderComponentCall ==
    /\ pc = "builder"
    /\ \E type \in BuilderTypes, id \in BuilderIds :
         LET r == BuilderComponent(topology, type, id)
         IN  /\ topology' = r.topology
             /\ error' = r.error
             /\ raised' = r.error
             /\ lastCall' = BuilderCall("component", Len(r.topology),
                                        <<type, id>>, r.error)
             /\ IF r.error = "none"
                THEN /\ capacity' = IF Len(topology) = capacity
                                    THEN Grown(capacity) ELSE capacity
                     /\ entryBuilders' =
                          Rebound(topology, capacity, entryBuilders)
                ELSE UNCHANGED <<capacity, entryBuilders>>
    /\ UNCHANGED <<factories_, initializer_, dependencyRegisters_, stack,
                   entryIdx, pc, log, history, threads, json_, registerers>>

\* entryBuilder.dependency(id) on the builder returned for entry i; each id
\* is given once per entry
EntryDependencyCall ==
    /\ pc = "builder"
    /\ \E i \in 1..Len(topology), id \in BuilderIds :
         /\ entryBuilders[i]
         /\ \A k \in 1..Len(topology[i].dependencyIds) :
              topology[i].dependencyIds[k] # id
         /\ topology' = EntryDependency(topology, i, id)
         /\ lastCall' = BuilderCall("dependency", i, <<id>>, "none")
    /\ error' = "none"
    /\ raised' = "none"
    /\ UNCHANGED <<factories_, initializer_, dependencyRegisters_, stack,
                   entryIdx, pc, log, history, threads, json_, capacity,
                   entryBuilders, registerers>>

\* entryBuilder.config<T>(key, value) on the builder returned for entry i
EntryConfigCall ==
    /\ pc = "builder"
    /\ \E i \in 1..Len(topology), key \in BuilderKeys, v \in BuilderValues :
         /\ entryBuilders[i]
         /\ LET r == EntryConfig(topology, i, key, v[1], v[2])
            IN  /\ topology' = r.topology
                /\ error' = r.error
                /\ raised' = r.error
                /\ lastCall' = BuilderCall("config", i, <<key, v[1], v[2]>>,
                                           r.error)
    /\ UNCHANGED <<factories_, initializer_, dependencyRegisters_, stack,
                   entryIdx, pc, log, history, threads, json_, capacity,
                   entryBuilders, registerers>>

\* dependency() or config() on a builder whose entry has been moved away by
\* a later component(): the call works on released storage.  It returns
\* without touching the topology, or the process is killed.
StaleEntryBuilderCall ==
    /\ pc = "builder"
    /\ \E i \in 1..Len(topology), op \in {"dependency", "config"} :
         /\ ~entryBuilders[i]
         /\ lastCall' = BuilderCall(op, i, <<>>, "stale")
    /\ \E outcome \in {"builder", "terminated"} :
         /\ pc' = outcome
         /\ error' = IF outcome = "terminated" THEN "terminate" ELSE "none"
         /\ raised' = error'
    /\ UNCHANGED <<topology, factories_, initializer_, dependencyRegisters_,
                   stack, entryIdx, log, history, threads, json_, capacity,
                   entryBuilders, registerers>>

\* TopologyBuilder topologyBuilder{topology}: the topology is cleared and
\* keeps the capacity it had
InitBuilder ==
    /\ topology = <<>>
    /\ factories_ = {}
    /\ initializer_ = NoInitializer
    /\ dependencyRegisters_ = EmptyRegistry
    /\ stack = <<>>
    /\ entryIdx = 1
    /\ pc = "builder"
    /\ error = "none"
    /\ raised = "none"
    /\ log = <<>>
    /\ lastCall = NoCall
    /\ history = {}
    /\ threads = NoThreads
    /\ json_ = NoJson
    /\ capacity \in 0..MaxComponents
    /\ entryBuilders = <<>>
    /\ registerers = <<>>

NextBuilder ==
    \/ BuilderComponentCall
    \/ EntryDependencyCall
    \/ EntryConfigCall
    \/ StaleEntryBuilderCall

SpecBuilder == InitBuilder /\ [][NextBuilder]_vars

\* the entry component(type, id) creates
NewEntry(type, id) ==
    [type |-> type, id |-> id, dependencyIds |-> <<>>, config |-> {}]

\* C21: component(type, id) appends the entry (type, id, no dependencies,
\* empty config) at the end of the topology when no entry has that id, and
\* otherwise fails with ComponentIdDuplicated and leaves the topology as it
\* was.  Hence, after any sequence of builder calls, the ids of the entries
\* are pairwise distinct and no call removes or reorders entries: the
\* entries stand in the order of the component() calls that made them.
C21_ComponentAppendsOrRejects ==
    /\ [](\A i, j \in 1..Len(topology) :
             topology[i].id = topology[j].id => i = j)
    /\ [][/\ Len(topology') >= Len(topology)
          /\ \A i \in 1..Len(topology) :
               /\ topology'[i].id = topology[i].id
               /\ topology'[i].type = topology[i].type
          /\ BuilderComponentCall =>
               LET type == lastCall'.args[1]
                   id == lastCall'.args[2]
               IN  IF \A i \in 1..Len(topology) : topology[i].id # id
                   THEN /\ error' = "none"
                        /\ topology' = Append(topology, NewEntry(type, id))
                   ELSE /\ error' = "ComponentIdDuplicated"
                        /\ topology' = topology]_vars

\* a component() call was rejected after two were accepted and the first
\* entry was filled in
C21_Witness ==
    /\ pc = "builder"
    /\ lastCall.op = "component"
    /\ error = "ComponentIdDuplicated"
    /\ Len(topology) = 2
    /\ topology[1].dependencyIds # <<>>
    /\ topology[1].config # {}

\* C22: config<T>(key, value), called on the builder of an entry, adds the
\* entry (key, T, value) to the config of that entry when the config has no
\* entry of that key, and otherwise fails with ConfigEntryKeyDuplicated and
\* leaves the stored type and value of the key, and everything else, as they
\* were.  Hence, after any sequence of calls, no config holds two entries of
\* one key.
C22_ConfigAddsOrRejects ==
    /\ [](\A i \in 1..Len(topology) :
             \A e1, e2 \in topology[i].config : e1.key = e2.key => e1 = e2)
    /\ [][EntryConfigCall =>
            LET i == lastCall'.entry
                key == lastCall'.args[1]
                entry == ConfigEntry(key, lastCall'.args[2], lastCall'.args[3])
            IN  IF \A e \in topology[i].config : e.key # key
                THEN /\ error' = "none"
                     /\ topology' =
                          [topology EXCEPT ![i].config = @ \cup {entry}]
                ELSE /\ error' = "ConfigEntryKeyDuplicated"
                     /\ topology' = topology]_vars

\* config() was rejected for a key that is stored with another type and
\* value than the ones of the call
C22_Witness ==
    /\ pc = "builder"
    /\ lastCall.op = "config"
    /\ error = "ConfigEntryKeyDuplicated"
    /\ \E e \in topology[lastCall.entry].config :
         /\ e.key = lastCall.args[1]
         /\ e.type # lastCall.args[2]
         /\ e.value # lastCall.args[3]
    /\ Cardinality(topology[lastCall.entry].config) = 2

\* C23: the TopologyBuilder that load() constructs clears the topology, so
\* after a successful load() the topology holds one entry per element of the
\* JSON array, in document order and with the type and id of that element,
\* and none of the entries it held before the call.
C23_LoadReplacesTopology ==
    (pc = "loaded" /\ error = "none") =>
        /\ Len(topology) = Len(json_.value)
        /\ \A i \in 1..Len(topology) :
             /\ topology[i].type = json_.value[i].value["type"].value
             /\ topology[i].id = json_.value[i].value["id"].value

\* a topology that held an entry was loaded with a document of two
\* components, neither of which is the entry held before
C23_Witness ==
    /\ pc = "loaded"
    /\ error = "none"
    /\ lastCall.held = StaleTopology
    /\ Len(topology) = 2
    /\ topology[1].id = "b"
    /\ topology[2].id = "a"
    /\ \A i \in 1..2 : topology[i] # StaleTopology[1]

(***************************************************************************)
(* The rules a document has to meet, in the order in which load() is to    *)
(* examine them.                                                           *)
(***************************************************************************)
NoViolation == [where |-> <<>>, message |-> "none"]

Violation(where, message) == [where |-> where, message |-> message]

\* the first of the positions 1..n at which rule(k) is violated
FirstViolation(n, rule(_)) ==
    LET bad == {k \in 1..n : rule(k) # NoViolation}
    IN  IF bad = {} THEN NoViolation
        ELSE rule(CHOOSE k \in bad : \A l \in bad : k <= l)

\* the rule on the value of a config entry
ValueRule(at, key, js) ==
    CASE js.kind \in {"boolean", "unsigned", "integer", "string"} ->
           NoViolation
      [] js.kind = "object" ->
           IF Cardinality(DOMAIN js.value) # 1
           THEN Violation(at \o <<"Config", key>>,
                          "Config entry object shall be of size 1.")
           ELSE LET T == CHOOSE k \in DOMAIN js.value : TRUE
                    n == js.value[T]
                IN  IF T \notin SizedTypes
                    THEN Violation(at \o <<"Config", key>>,
                                   "Config entry object type shall be one of {uint8_t, int8_t, uint16_t, int16_t, uint32_t, int32_t, uint64_t, int64_t}.")
                    ELSE IF T \in UnsignedTypeNames /\ n.kind # "unsigned"
                    THEN Violation(at \o <<"Config", key>>,
                                   "Config entry value type shall be unsigned integer.")
                    ELSE IF n.kind \notin {"unsigned", "integer"}
                    THEN Violation(at \o <<"Config", key>>,
                                   "Config entry value type shall be integer.")
                    ELSE IF ~InRangeOf(T, n.value)
                    THEN Violation(at \o <<"Config", key>>,
                                   "Config entry value shall be in range of its declared type.")
                    ELSE NoViolation
      [] OTHER ->
           Violation(at \o <<"Config", key>>,
                     "Config entry type shall be one of {bool, ungigned int, signed int, string, object}.")

ConfigRule(at, componentJson) ==
    IF "config" \notin DOMAIN componentJson.value THEN NoViolation
    ELSE LET js == componentJson.value["config"]
         IN  IF js.kind # "object"
             THEN Violation(at, "Config shall be an object.")
             ELSE LET keys == SortedSeq(DOMAIN js.value)
                      rule(k) ==
                          IF keys[k] = ""
                          THEN Violation(at,
                                   "Config shall not consist of empty keys.")
                          ELSE ValueRule(at, keys[k], js.value[keys[k]])
                  IN  FirstViolation(Len(keys), rule)

DependenciesRule(at, componentJson) ==
    IF "dependencies" \notin DOMAIN componentJson.value THEN NoViolation
    ELSE LET js == componentJson.value["dependencies"]
         IN  IF js.kind # "array"
             THEN Violation(at, "Dependencies shall be an array.")
             ELSE LET rule(k) ==
                          IF js.value[k].kind # "string"
                          THEN Violation(at \o <<"Dependency", ItemKey(k)>>,
                                   "Dependency type shall be a string.")
                          ELSE IF js.value[k].value = ""
                          THEN Violation(at \o <<"Dependency", ItemKey(k)>>,
                                   "Dependency id shall not be empty.")
                          ELSE NoViolation
                  IN  FirstViolation(Len(js.value), rule)

NameRule(index, componentJson, key) ==
    IF key \notin DOMAIN componentJson.value
    THEN Violation(<<index>>, "Component " \o key \o " shall be specified.")
    ELSE IF componentJson.value[key].kind # "string"
    THEN Violation(<<index>>, "Component " \o key \o " shall be a string.")
    ELSE IF componentJson.value[key].value = ""
    THEN Violation(<<index>>, "Component " \o key \o " shall not be empty.")
    ELSE NoViolation

ComponentRule(index, componentJson) ==
    IF componentJson.kind # "object"
    THEN Violation(<<index>>, "Component shall be an object.")
    ELSE IF NameRule(index, componentJson, "type") # NoViolation
    THEN NameRule(index, componentJson, "type")
    ELSE IF NameRule(index, componentJson, "id") # NoViolation
    THEN NameRule(index, componentJson, "id")
    ELSE LET at == <<index, componentJson.value["type"].value,
                     componentJson.value["id"].value>>
         IN  IF DependenciesRule(at, componentJson) # NoViolation
             THEN DependenciesRule(at, componentJson)
             ELSE ConfigRule(at, componentJson)

DocumentRule(js) ==
    IF js.kind # "array"
    THEN Violation(<<>>, "Topology json shall be an array.")
    ELSE LET rule(k) == ComponentRule(ItemKey(k), js.value[k])
         IN  FirstViolation(Len(js.value), rule)

\* C26: load() examines the components in document order and, in a
\* component, is-object, type, id, dependencies (is-array, then the
\* elements in order) and config (is-object, then the keys in sorted
\* order); when the document violates one of these rules, load() fails with
\* a TopologyLoaderException that carries the message of the first
\* violation in that order and the zero-based index of the component (and
\* of the dependency) at fault.
C26_FirstViolationReported ==
    (pc = "loaded" /\ DocumentRule(json_) # NoViolation) =>
        /\ error = "TopologyLoaderException"
        /\ lastCall.message = DocumentRule(json_).message
        /\ lastCall.where = DocumentRule(json_).where

\* the config entries the members of a JSON config stand for, keys only
ConfigOf(configJson, keys) ==
    {ConfigEntry(key, DeclaredType(configJson.value[key]),
                 DenotedValue(configJson.value[key])) : key \in keys}

\* the entry a well-formed component of the document stands for
EntryOf(componentJson) ==
    LET configJson == MemberOr(componentJson, "config", JsonObject(<<>>))
    IN  [type |-> componentJson.value["type"].value,
         id |-> componentJson.value["id"].value,
         dependencyIds |->
             StringsOf(MemberOr(componentJson, "dependencies",
                                JsonArray(<<>>))),
         config |-> ConfigOf(configJson, DOMAIN configJson.value)]

\* what load() had accepted of a component when it failed at where
AcceptedOf(componentJson, where, message) ==
    LET dependencyIds ==
            StringsOf(MemberOr(componentJson, "dependencies",
                               JsonArray(<<>>)))
        configJson == MemberOr(componentJson, "config", JsonObject(<<>>))
        accepted(ids, keys) ==
            [type |-> componentJson.value["type"].value,
             id |-> componentJson.value["id"].value,
             dependencyIds |-> ids,
             config |-> ConfigOf(configJson, keys)]
    IN  IF Len(where) = 5 /\ where[4] = "Dependency"
        THEN LET d == CHOOSE k \in 1..Len(dependencyIds) :
                          ItemKey(k) = where[5]
             IN  accepted(SubSeq(dependencyIds, 1, d - 1), {})
        ELSE IF Len(where) = 5
        THEN accepted(dependencyIds,
                      {key \in DOMAIN configJson.value :
                          Rank(key) < Rank(where[5])})
        ELSE IF message = "Dependencies shall be an array."
        THEN accepted(<<>>, {})
        ELSE accepted(dependencyIds, {})

\* C30: a failed load() is not rolled back.  When it fails at component #i
\* the topology holds the entries of the components before #i, fully
\* loaded, followed by an entry for #i exactly when the failure happened in
\* its dependencies or its config, and this entry holds the dependencies
\* and config entries accepted before the failure.  When the document is
\* not an array the topology is empty.  No entry held before the call is
\* kept.
C30_FailedLoadKeepsLoadedPrefix ==
    (pc = "loaded" /\ error # "none") =>
        IF json_.kind # "array" THEN topology = <<>>
        ELSE \E k \in 1..Len(json_.value) :
               /\ \A j \in 1..(k - 1) :
                    /\ j <= Len(topology)
                    /\ topology[j] = EntryOf(json_.value[j])
               /\ IF error = "TopologyLoaderException"
                  THEN lastCall.where[1] = ItemKey(k)
                  ELSE /\ json_.value[k].kind = "object"
                       /\ "id" \in DOMAIN json_.value[k].value
                       /\ json_.value[k].value["id"].value = lastCall.message
                       /\ \E j \in 1..(k - 1) :
                            topology[j].id = lastCall.message
               /\ IF Len(lastCall.where) >= 3
                  THEN /\ Len(topology) = k
                       /\ topology[k] = AcceptedOf(json_.value[k],
                                                   lastCall.where,
                                                   lastCall.message)
                  ELSE Len(topology) = k - 1

\* load() failed at the second key of the config of the second component,
\* on a topology that held an entry before
C30_Witness ==
    /\ pc = "loaded"
    /\ error = "TopologyLoaderException"
    /\ lastCall.held = StaleTopology
    /\ lastCall.where = <<"1", "Leaf", "b", "Config", "m">>
    /\ Len(topology) = 2
    /\ topology[1].id = "a"
    /\ topology[2].dependencyIds = <<"a">>
    /\ topology[2].config = {ConfigEntry("k", "uint64_t", One)}

(***************************************************************************)
(* FactoryRegisterer objects constructed and destroyed in any order.  The  *)
(* factory of a registerer is Factory(type, obj) with obj the registerer.  *)
(***************************************************************************)
RegistererObjs == {1, 2, 3}

Registerer(type, registered) == [type |-> type, registered_ |-> registered]

\* variant of RegistererDestructor: remove is called whatever registered_ is
RegistererDestructor_Always(factories, obj, registerer) ==
    FactoryRegistryRemove(factories, Factory(registerer.type, obj))

\* FactoryRegisterer::~FactoryRegisterer: the registry afterwards
RegistererDestructor(factories, obj, registerer) ==
    IF registerer.registered_
    THEN FactoryRegistryRemove(factories, Factory(registerer.type, obj))
    ELSE factories

\* FactoryRegisterer<T>::FactoryRegisterer
RegistererConstruct ==
    /\ pc = "registerers"
    /\ \E obj \in RegistererObjs \ DOMAIN registerers, type \in FactoryTypes :
         LET r == FactoryRegistryAdd(factories_, Factory(type, obj))
         IN  /\ factories_' = r.factories
             /\ registerers' = registerers @@ (obj :> Registerer(type, r.result))
             /\ lastCall' = [op |-> "construct", obj |-> obj, type |-> type,
                             registered_ |-> r.result]
    /\ UNCHANGED <<topology, initializer_, dependencyRegisters_, stack,
                   entryIdx, pc, error, raised, log, history, threads, json_,
                   capacity, entryBuilders>>

\* FactoryRegisterer<T>::~FactoryRegisterer
RegistererDestroy ==
    /\ pc = "registerers"
    /\ \E obj \in DOMAIN registerers :
         /\ factories_' =
              RegistererDestructor(factories_, obj, registerers[obj])
         /\ registerers' =
              [o \in DOMAIN registerers \ {obj} |-> registerers[o]]
         /\ lastCall' = [op |-> "destroy", obj |-> obj,
                         type |-> registerers[obj].type,
                         registered_ |-> registerers[obj].registered_]
    /\ UNCHANGED <<topology, initializer_, dependencyRegisters_, stack,
                   entryIdx, pc, error, raised, log, history, threads, json_,
                   capacity, entryBuilders>>

InitRegisterers ==
    /\ topology = <<>>
    /\ factories_ = {}
    /\ initializer_ = NoInitializer
    /\ dependencyRegisters_ = EmptyRegistry
    /\ stack = <<>>
    /\ entryIdx = 1
    /\ pc = "registerers"
    /\ error = "none"
    /\ raised = "none"
    /\ log = <<>>
    /\ lastCall = NoCall
    /\ history = {}
    /\ threads = NoThreads
    /\ json_ = NoJson
    /\ capacity = 0
    /\ entryBuilders = <<>>
    /\ registerers = <<>>

NextRegisterers == RegistererConstruct \/ RegistererDestroy

SpecRegisterers == InitRegisterers /\ [][NextRegisterers]_vars

C27_BuildLeavesTopologyUnchanged ==
    (pc = "built" /\ lastCall.op = "build") =>
        /\ topology[lastCall.entry].type = lastCall.type
        /\ topology[lastCall.entry].id = lastCall.id
        /\ topology[lastCall.entry].dependencyIds = lastCall.dependencyIds
        /\ topology[lastCall.entry].config = lastCall.config

(***************************************************************************)
(* Factory<T>::build called directly, any number of times, by a caller     *)
(* that owns the DependencyRegistry, catches what build throws and keeps   *)
(* the components it gets.                                                 *)
(***************************************************************************)
\* the dependency ids of a call: as many as the constructor takes, or fewer
BuildDependencyIds(type) ==
    UNION {[1..n -> Ids] : n \in 0..Len(Construct(type, 0))}

\* the configs of a call
BuildConfigs == ConfigValues \cup {EmptyConfig}

\* how the call before this one ended
Previous(call) ==
    IF call.op = "build"
    THEN [type |-> call.type, outcome |-> call.outcome]
    ELSE [type |-> "none", outcome |-> "none"]

\* Factory<T>::build(id, dependencyIds, config, dependencyRegistry)
FactoryBuildCall ==
    /\ pc = "builds"
    /\ entryIdx <= MaxEntries
    /\ \E type \in ComponentTypes, id \in Ids, config \in BuildConfigs :
         \E dependencyIds \in BuildDependencyIds(type),
            yields \in SideYields(type), evalOrder \in EvalOrders(type) :
           \E garbage \in GarbageReads(type, dependencyIds) :
             LET e == [type |-> type, id |-> id,
                       dependencyIds |-> dependencyIds, config |-> config]
                 r == FactoryBuild(type, entryIdx, id, dependencyIds, config,
                                   dependencyRegisters_, initializer_, yields,
                                   garbage, evalOrder)
             IN  /\ initializer_' = r.initializer
                 /\ dependencyRegisters_' = r.registry
                 /\ raised' = r.error
                 /\ error' = IF r.outcome = "throw" THEN r.error ELSE "none"
                 /\ log' = log \o r.events
                 /\ lastCall' =
                      [previous |-> Previous(lastCall)]
                      @@ BuildCall(entryIdx, e, yields, r.outcome, r.error)
                 /\ stack' = IF r.outcome = "ok"
                             THEN Append(stack, r.component) ELSE stack
                 /\ pc' = IF r.outcome = "terminate"
                          THEN "terminated" ELSE "builds"
    /\ entryIdx' = entryIdx + 1
    /\ UNCHANGED <<topology, factories_, history, threads, json_, capacity,
                   entryBuilders, registerers>>

InitBuilds ==
    /\ topology = <<>>
    /\ factories_ = StaticFactories(ComponentTypes)
    /\ initializer_ = NoInitializer
    /\ dependencyRegisters_ = EmptyRegistry
    /\ stack = <<>>
    /\ entryIdx = 1
    /\ pc = "builds"
    /\ error = "none"
    /\ raised = "none"
    /\ log = <<>>
    /\ lastCall = NoCall
    /\ history = {}
    /\ threads = NoThreads
    /\ json_ = NoJson
    /\ capacity = 0
    /\ entryBuilders = <<>>
    /\ registerers = <<>>

NextBuilds == FactoryBuildCall

SpecBuilds == InitBuilds /\ [][NextBuilds]_vars

\* C24: whatever calls of Factory::build came before, a component that
\* build returns has the id and the config that were passed to the call
\* that returned it, and nothing stays behind in the initializer slot.
C24_ComponentGetsItsOwnIdAndConfig ==
    (pc = "builds" /\ lastCall.op = "build" /\ lastCall.outcome = "ok") =>
        /\ stack[Len(stack)].entry = lastCall.entry
        /\ stack[Len(stack)].id = lastCall.id
        /\ stack[Len(stack)].config = lastCall.config
        /\ initializer_[lastCall.type]
             = [first |-> MovedFromId, second |-> EmptyConfig]

\* a build succeeded right after a failed build of the same type, with
\* another id and another config than the builds before it
C24_Witness ==
    /\ pc = "builds"
    /\ lastCall.op = "build"
    /\ lastCall.outcome = "ok"
    /\ lastCall.previous = [type |-> lastCall.type, outcome |-> "throw"]
    /\ Len(stack) = 2
    /\ stack[1].type = lastCall.type
    /\ stack[1].id # lastCall.id
    /\ stack[1].config # lastCall.config
    /\ stack[2].config = EmptyConfig

\* C28: a call of Factory::build that fails leaves the registry as it was
\* before the call, so that no entry refers to the destroyed component.
C28_FailedBuildLeavesRegistryUnchanged ==
    [][(pc = "builds" /\ lastCall'.op = "build" /\ entryIdx' # entryIdx
        /\ lastCall'.outcome = "throw")
          => dependencyRegisters_' = dependencyRegisters_]_vars

\* C29: a call of Factory::build that lists fewer dependency ids than the
\* constructor it selects takes is rejected with an error: it neither
\* returns a component nor ends the process.
C29_ShortDependencyIdsRejected ==
    (lastCall.op = "build" /\ pc \in {"builds", "terminated"}
     /\ Len(lastCall.dependencyIds) < Len(Construct(lastCall.type, 0)))
        => lastCall.outcome = "throw"

====
